---- MODULE Spec2Model ----
(***************************************************************************)
(* MissionLog document pipeline: template resolution (three tiers), the    *)
(* two-pass renderer, the batch export of the Dashboard and the single     *)
(* download of MissionDetails, as implemented in src/unnamed/part_000      *)
(* (the current application) and src/index.tsx (the earlier copy).         *)
(*                                                                         *)
(* Strings are sequences of one-character strings, byte buffers are        *)
(* sequences of integers 0..255.                                           *)
(***************************************************************************)
EXTENDS Integers, Sequences, FiniteSets, TLC

(***************************************************************************)
(* Characters and strings                                                  *)
(***************************************************************************)

\* Printable ASCII, code 32 (space) to 126 (~): Ascii[i] has code 31 + i.
Ascii == <<" ", "!", "dquote", "#", "$", "%", "&", "'", "(", ")", "*", "+", ",", "-", ".", "/", "0", "1", "2", "3", "4", "5", "6", "7", "8", "9", ":", ";", "<", "=", ">", "?", "@", "A", "B", "C", "D", "E", "F", "G", "H", "I", "J", "K", "L", "M", "N", "O", "P", "Q", "R", "S", "T", "U", "V", "W", "X", "Y", "Z", "[", "bslash", "]", "^", "_", "btick", "a", "b", "c", "d", "e", "f", "g", "h", "i", "j", "k", "l", "m", "n", "o", "p", "q", "r", "s", "t", "u", "v", "w", "x", "y", "z", "{", "|", "}", "~">>

\* String.prototype.charCodeAt for one character ("\n" is code 10).
charCodeAt(c) ==
    IF c = "\n" THEN 10
    ELSE 31 + (CHOOSE i \in 1..Len(Ascii) : Ascii[i] = c)

\* String.fromCharCode for one byte of a document.
fromCharCode(b) ==
    IF b = 10 THEN "\n"
    ELSE IF b >= 32 /\ b <= 126 THEN Ascii[b - 31]
    ELSE "?"

\* The bytes of a text (the texts of the model are ASCII).
Bytes(str) == [i \in 1..Len(str) |-> charCodeAt(str[i])]

\* The text of a byte sequence.
Text(bytes) == [i \in 1..Len(bytes) |-> fromCharCode(bytes[i])]

\* The characters matched by \s, \n, \r in the alphabet of the model.
Whitespace == {" ", "\n"}

\* The characters matched by [a-z0-9] with the i flag.
Alnum == {Ascii[i] : i \in 17..26} \cup {Ascii[i] : i \in 34..59} \cup {Ascii[i] : i \in 66..91}

\* An optional field that is absent (undefined).
Undefined == <<"undefined">>

\* JavaScript truthiness of an optional string.
Falsy(x) == x = Undefined \/ x = <<>>

\* a || b
OrElse(a, b) == IF Falsy(a) THEN b ELSE a

(***************************************************************************)
(* Results of operations that may throw                                    *)
(***************************************************************************)

Ok(v) == [ok |-> TRUE, val |-> v]

Throw == [ok |-> FALSE, val |-> <<>>]

(***************************************************************************)
(* Binary codec                                                            *)
(***************************************************************************)

\* The base64 alphabet: B64Alphabet[i] has value i - 1.
B64Alphabet == <<"A", "B", "C", "D", "E", "F", "G", "H", "I", "J", "K", "L", "M", "N", "O", "P", "Q", "R", "S", "T", "U", "V", "W", "X", "Y", "Z", "a", "b", "c", "d", "e", "f", "g", "h", "i", "j", "k", "l", "m", "n", "o", "p", "q", "r", "s", "t", "u", "v", "w", "x", "y", "z", "0", "1", "2", "3", "4", "5", "6", "7", "8", "9", "+", "/">>

B64Chars == {B64Alphabet[i] : i \in 1..64}

B64Val(c) == (CHOOSE i \in 1..64 : B64Alphabet[i] = c) - 1

\* base64.replace(/[\s\n\r]/g, ''): the characters that are not whitespace,
\* in their order.
StripWhitespace(s) ==
    LET keep == {i \in 1..Len(s) : s[i] \notin Whitespace}
    IN [k \in 1..Cardinality(keep) |->
           s[CHOOSE i \in keep : Cardinality({j \in keep : j <= i}) = k]]

\* The bytes of a string of base64 characters without padding whose
\* length is not 1 modulo 4: each group of four characters gives three
\* bytes, a last group of two or three characters gives one or two, and
\* the left-over bits of the last group are dropped.
B64DecodeGroups(d) ==
    LET n == Len(d)
        val(i) == IF i <= n THEN B64Val(d[i]) ELSE 0
        group(g) == val(4 * g + 1) * 262144 + val(4 * g + 2) * 4096
                    + val(4 * g + 3) * 64 + val(4 * g + 4)
        count == 3 * (n \div 4) + (IF n % 4 = 0 THEN 0 ELSE (n % 4) - 1)
    IN [k \in 1..count |->
           LET v == group((k - 1) \div 3)
           IN IF (k - 1) % 3 = 0 THEN v \div 65536
              ELSE IF (k - 1) % 3 = 1 THEN (v \div 256) % 256
              ELSE v % 256]

\* A decoder that does not know the padding character.
atob_noPadding(data) ==
    LET d1 == StripWhitespace(data)
    IN IF Len(d1) % 4 = 1 THEN Throw
       ELSE IF \E i \in 1..Len(d1) : d1[i] \notin B64Chars THEN Throw
       ELSE Ok(B64DecodeGroups(d1))

\* window.atob (forgiving-base64 decode): whitespace is removed, one or two
\* trailing "=" are removed when the length is a multiple of 4, a length of
\* 1 modulo 4 or a character outside the alphabet throws.
atob(data) ==
    LET d1 == StripWhitespace(data)
        n1 == Len(d1)
        d2 == IF n1 > 0 /\ n1 % 4 = 0
              THEN IF n1 >= 2 /\ d1[n1] = "=" /\ d1[n1 - 1] = "="
                   THEN SubSeq(d1, 1, n1 - 2)
                   ELSE IF d1[n1] = "=" THEN SubSeq(d1, 1, n1 - 1) ELSE d1
              ELSE d1
    IN IF Len(d2) % 4 = 1 THEN Throw
       ELSE IF \E i \in 1..Len(d2) : d2[i] \notin B64Chars THEN Throw
       ELSE Ok(B64DecodeGroups(d2))

\* base64ToArrayBuffer without its validation.
base64ToArrayBuffer_noValidation(base64) ==
    IF base64 = Undefined THEN Throw
    ELSE atob(StripWhitespace(base64))

\* base64ToArrayBuffer of src/unnamed/part_000: the length test is made on
\* the string as given, before the whitespace is removed.
base64ToArrayBuffer(base64) ==
    IF Falsy(base64) \/ Len(base64) % 4 # 0 THEN Throw
    ELSE atob(StripWhitespace(base64))

\* base64ToArrayBuffer of src/index.tsx: no validation before atob.
base64ToArrayBuffer_index(base64) ==
    IF base64 = Undefined THEN Throw
    ELSE atob(StripWhitespace(base64))

(***************************************************************************)
(* Archive and directive engines (window.PizZip, window.docxtemplater)     *)
(***************************************************************************)

\* The two signature bytes "PK" every archive starts with.
ZipSignature == <<80, 75>>

\* new PizZip(buffer): throws unless the buffer is an archive.  The opened
\* archive is represented by its bytes.
PizZipLoad(buffer) ==
    IF Len(buffer) >= 2 /\ SubSeq(buffer, 1, 2) = ZipSignature
    THEN Ok(buffer)
    ELSE Throw

\* The eleven keys of the field mapping, as the template spells them.
KeyChars == [
    title      |-> <<"t", "i", "t", "l", "e">>,
    location   |-> <<"l", "o", "c", "a", "t", "i", "o", "n">>,
    date       |-> <<"d", "a", "t", "e">>,
    finishDate |-> <<"f", "i", "n", "i", "s", "h", "D", "a", "t", "e">>,
    startTime  |-> <<"s", "t", "a", "r", "t", "T", "i", "m", "e">>,
    finishTime |-> <<"f", "i", "n", "i", "s", "h", "T", "i", "m", "e">>,
    notes      |-> <<"n", "o", "t", "e", "s">>,
    fullName   |-> <<"f", "u", "l", "l", "N", "a", "m", "e">>,
    profession |-> <<"p", "r", "o", "f", "e", "s", "s", "i", "o", "n">>,
    cni        |-> <<"c", "n", "i">>,
    ppn        |-> <<"p", "p", "n">> ]

FieldKeys == DOMAIN KeyChars

\* nullGetter: (part) => part.raw || ""
nullGetter(part) == OrElse(part.raw, <<>>)

\* window.docxtemplater as the page loads it.  Its parser builds the part
\* handed to nullGetter, and what it leaves in the raw property of the part
\* of a plain directive is the engine's choice: the property is unset, or
\* it holds the text between the delimiters.
VARIABLE engine

Engines == {[partRaw |-> "unset"], [partRaw |-> "content"]}

\* The part the engine hands to nullGetter for the directive name.
Part(name, partRaw) ==
    [type |-> "placeholder", value |-> name,
     raw |-> IF partRaw = "content" THEN name ELSE Undefined]

\* The text a directive is replaced by: the value of its key, or what
\* nullGetter answers when the mapping has no such key.
TagValue(name, data) ==
    IF \E k \in FieldKeys : KeyChars[k] = name
    THEN data[CHOOSE k \in FieldKeys : KeyChars[k] = name]
    ELSE nullGetter(Part(name, engine.partRaw))

\* The position of the first delimiter in text, 0 if there is none.
FirstDelimiter(text, start, end) ==
    LET at == {i \in 1..Len(text) : text[i] \in {start, end}}
    IN IF at = {} THEN 0 ELSE CHOOSE i \in at : \A k \in at : i <= k

\* One substitution pass over the document text with the delimiters
\* (start, end): a directive that is not closed, or a closing delimiter
\* without an opening one, makes the engine throw.
RECURSIVE RenderText(_, _, _, _)
RenderText(text, data, start, end) ==
    LET i == FirstDelimiter(text, start, end)
        after == SubSeq(text, i + 1, Len(text))
        j == FirstDelimiter(after, start, end)
        rest == RenderText(SubSeq(after, j + 1, Len(after)), data, start, end)
    IN IF i = 0 THEN Ok(text)
       ELSE IF text[i] = end THEN Throw
       ELSE IF j = 0 THEN Throw
       ELSE IF after[j] = start THEN Throw
       ELSE IF ~rest.ok THEN Throw
       ELSE Ok(SubSeq(text, 1, i - 1) \o TagValue(SubSeq(after, 1, j - 1), data) \o rest.val)

\* new Docxtemplater(zip, {delimiters}).render(data) followed by
\* getZip().generate(): the bytes of the rendered archive, or a throw.
DocxRender(zip, data, start, end) ==
    LET r == RenderText(Text(SubSeq(zip, 3, Len(zip))), data, start, end)
    IN IF r.ok THEN Ok(ZipSignature \o Bytes(r.val)) ELSE Throw

(***************************************************************************)
(* Template Resolver                                                       *)
(***************************************************************************)

\* DEFAULT_TEMPLATE_BASE64 of ./constants: the embedded last-resort
\* template, base64 of the archive "PK(title)(date)(cni)".
DEFAULT_TEMPLATE_BASE64 == <<"U", "E", "s", "o", "d", "G", "l", "0", "b", "G", "U", "p", "K", "G", "R", "h", "d", "G", "U", "p", "K", "G", "N", "u", "a", "S", "k", "=">>

\* The payload size a fetched default document must exceed.
MinTemplateBytes == 100

\* The content types response.headers.get('content-type') answers in the
\* model ("null": no such header) and those that include 'text/html'.
ContentTypes == {"null", "text/html", "text/html; charset=utf-8",
                 "application/octet-stream"}

HtmlTypes == {"text/html", "text/html; charset=utf-8"}

\* settings.customTemplates.find(t => t.id === settings.activeTemplateId)
find(customTemplates, id) ==
    IF \E i \in 1..Len(customTemplates) : customTemplates[i].id = id
    THEN LET i == CHOOSE j \in 1..Len(customTemplates) :
                    /\ customTemplates[j].id = id
                    /\ \A k \in 1..(j - 1) : customTemplates[k].id # id
         IN <<customTemplates[i]>>
    ELSE <<>>

\* A resolution: ok = FALSE when the promise rejects; tier names the tier
\* that answered, fetched whether the default document was requested,
\* response which outcome the fetch had ("none": no fetch).
Resolution(r, tier, fetched, response) ==
    [ok |-> r.ok, val |-> r.val, tier |-> tier, fetched |-> fetched,
     response |-> response]

\* The resolver asking for the default document before looking at the
\* custom templates.
Tier1_fetchFirst(settings) ==
    [kind |-> "fetch", res |-> Resolution(Throw, "none", TRUE, "none")]

\* The resolver failing when the active template is not in the list.
Tier1_rejectMissing(settings) ==
    LET custom == IF settings.activeTemplateId # "default"
                  THEN find(settings.customTemplates, settings.activeTemplateId)
                  ELSE <<>>
    IN IF custom # <<>>
       THEN [kind |-> "done",
             res |-> Resolution(base64ToArrayBuffer(custom[1].data), "custom", FALSE, "none")]
       ELSE IF settings.activeTemplateId # "default"
            THEN [kind |-> "done", res |-> Resolution(Throw, "custom", FALSE, "none")]
            ELSE [kind |-> "fetch", res |-> Resolution(Throw, "none", TRUE, "none")]

\* getTemplateBuffer up to its first await: tier 1 answers (kind "done"),
\* or the default document is requested (kind "fetch").
Tier1(settings) ==
    LET custom == IF settings.activeTemplateId # "default"
                  THEN find(settings.customTemplates, settings.activeTemplateId)
                  ELSE <<>>
    IN IF custom # <<>>
       THEN [kind |-> "done",
             res |-> Resolution(base64ToArrayBuffer(custom[1].data), "custom", FALSE, "none")]
       ELSE [kind |-> "fetch", res |-> Resolution(Throw, "none", TRUE, "none")]

\* Tier 3: the embedded template.
Tier3(response) ==
    Resolution(base64ToArrayBuffer(DEFAULT_TEMPLATE_BASE64), "embedded", TRUE,
               response.label)

\* The resolver taking any fetched payload that is not empty.
AfterFetch_nonEmpty(response) ==
    IF response.err THEN Tier3(response)
    ELSE IF response.ok /\ (response.contentType = "null"
                            \/ response.contentType \notin HtmlTypes)
         THEN IF Len(response.body) > 0
              THEN Resolution(Ok(response.body), "fetched", TRUE, response.label)
              ELSE Tier3(response)
         ELSE Tier3(response)

\* The resolver without the catch around the fetch.
AfterFetch_noCatch(response) ==
    IF response.err THEN Resolution(Throw, "none", TRUE, response.label)
    ELSE IF response.ok /\ (response.contentType = "null"
                            \/ response.contentType \notin HtmlTypes)
         THEN IF Len(response.body) > MinTemplateBytes
              THEN Resolution(Ok(response.body), "fetched", TRUE, response.label)
              ELSE Tier3(response)
         ELSE Tier3(response)

\* getTemplateBuffer from the completion of the fetch: tier 2 if the
\* response is acceptable, tier 3 otherwise.
AfterFetch(response) ==
    IF response.err THEN Tier3(response)
    ELSE IF response.ok /\ (response.contentType = "null"
                            \/ response.contentType \notin HtmlTypes)
         THEN IF Len(response.body) > MinTemplateBytes
              THEN Resolution(Ok(response.body), "fetched", TRUE, response.label)
              ELSE Tier3(response)
         ELSE Tier3(response)

\* getTemplateBuffer as a whole, for a given outcome of the fetch.
getTemplateBuffer(settings, response) ==
    IF Tier1(settings).kind = "done" THEN Tier1(settings).res
    ELSE AfterFetch(response)

(***************************************************************************)
(* Document Renderer                                                       *)
(***************************************************************************)

\* The field mapping without the default of finishDate.
FieldData_noDefault(mission, userProfile) == [
    title      |-> OrElse(mission.title, <<>>),
    location   |-> OrElse(mission.location, <<>>),
    date       |-> OrElse(mission.date, <<>>),
    finishDate |-> OrElse(mission.finishDate, <<>>),
    startTime  |-> OrElse(mission.startTime, <<>>),
    finishTime |-> OrElse(mission.finishTime, <<>>),
    notes      |-> OrElse(mission.notes, <<>>),
    fullName   |-> OrElse(userProfile.fullName, <<>>),
    profession |-> OrElse(userProfile.profession, <<>>),
    cni        |-> OrElse(userProfile.cni, <<>>),
    ppn        |-> OrElse(userProfile.ppn, <<>>) ]

\* The field mapping handed to both passes.
FieldData(mission, userProfile) == [
    title      |-> OrElse(mission.title, <<>>),
    location   |-> OrElse(mission.location, <<>>),
    date       |-> OrElse(mission.date, <<>>),
    finishDate |-> OrElse(mission.finishDate, OrElse(mission.date, <<>>)),
    startTime  |-> OrElse(mission.startTime, <<>>),
    finishTime |-> OrElse(mission.finishTime, <<>>),
    notes      |-> OrElse(mission.notes, <<>>),
    fullName   |-> OrElse(userProfile.fullName, <<>>),
    profession |-> OrElse(userProfile.profession, <<>>),
    cni        |-> OrElse(userProfile.cni, <<>>),
    ppn        |-> OrElse(userProfile.ppn, <<>>) ]

\* What generateDocxBlob answers: kind "blob" (a document), "null" (the
\* no-result value) or "reject" (an exception left the function).  resolved,
\* template, resTier, fetched and response tell how the resolver answered, tier is
\* the template the document was rendered from, healed whether the
\* embedded template replaced an unopenable one, passes the number of
\* passes that completed, alert the message shown.
Generated(kind, bytes, res, tier, healed, passes, alert) ==
    [kind |-> kind, bytes |-> bytes, resolved |-> res.ok, template |-> res.val,
     resTier |-> res.tier,
     fetched |-> res.fetched, response |-> res.response, tier |-> tier,
     healed |-> healed, passes |-> passes, alert |-> alert]

NoResolution == Resolution(Throw, "none", FALSE, "none")

\* The library check at the head of generateDocxBlob.
LibsLoaded(libs) == libs.PizZip /\ libs.docxtemplater

LibsMissing == Generated("null", <<>>, NoResolution, "none", FALSE, 0, "libs")

\* The two passes, both run on the archive opened from the template.
RenderPasses_sameArchive(zip, data, res, tier, healed) ==
    LET doc1 == DocxRender(zip, data, "{", "}")
        doc2 == IF doc1.ok THEN DocxRender(zip, data, "(", ")") ELSE Throw
    IN IF doc2.ok
       THEN Generated("blob", doc2.val, res, tier, healed, 2, "none")
       ELSE Generated("null", <<>>, res, tier, healed,
                      IF doc1.ok THEN 1 ELSE 0, "render")

\* The two passes (lines 194-222): pass 1 with { }, pass 2 with ( ) on the
\* archive re-opened from the output of pass 1.
RenderPasses(zip, data, res, tier, healed) ==
    LET doc1 == DocxRender(zip, data, "{", "}")
        zip2 == IF doc1.ok THEN PizZipLoad(doc1.val) ELSE Throw
        doc2 == IF zip2.ok THEN DocxRender(zip2.val, data, "(", ")") ELSE Throw
    IN IF doc2.ok
       THEN Generated("blob", doc2.val, res, tier, healed, 2, "none")
       ELSE Generated("null", <<>>, res, tier, healed,
                      IF doc1.ok /\ zip2.ok THEN 1 ELSE 0, "render")

\* generateDocxBlob without the retry on the embedded template.
GenerateFrom_noFallback(res, mission, userProfile) ==
    IF ~res.ok
    THEN Generated("null", <<>>, res, "none", FALSE, 0, "template")
    ELSE IF PizZipLoad(res.val).ok
         THEN RenderPasses(PizZipLoad(res.val).val, FieldData(mission, userProfile),
                           res, res.tier, FALSE)
         ELSE Generated("null", <<>>, res, "none", TRUE, 0, "critical")

\* generateDocxBlob without its catch blocks: a rejection of the resolver
\* leaves the function.
GenerateFrom_noCatch(res, mission, userProfile) ==
    IF ~res.ok
    THEN Generated("reject", <<>>, res, "none", FALSE, 0, "none")
    ELSE LET zip == PizZipLoad(res.val)
             fallback == base64ToArrayBuffer(DEFAULT_TEMPLATE_BASE64)
             zipF == IF fallback.ok THEN PizZipLoad(fallback.val) ELSE Throw
             data == FieldData(mission, userProfile)
         IN IF zip.ok THEN RenderPasses(zip.val, data, res, res.tier, FALSE)
            ELSE IF zipF.ok THEN RenderPasses(zipF.val, data, res, "embedded", TRUE)
            ELSE Generated("null", <<>>, res, "none", TRUE, 0, "critical")

\* generateDocxBlob from the completion of getTemplateBuffer (lines
\* 156-229): the rejection of the resolver is caught, an unopenable
\* template is replaced by the embedded one, then the two passes run.
GenerateFrom(res, mission, userProfile) ==
    IF ~res.ok
    THEN Generated("null", <<>>, res, "none", FALSE, 0, "template")
    ELSE LET zip == PizZipLoad(res.val)
             fallback == base64ToArrayBuffer(DEFAULT_TEMPLATE_BASE64)
             zipF == IF fallback.ok THEN PizZipLoad(fallback.val) ELSE Throw
             data == FieldData(mission, userProfile)
         IN IF zip.ok THEN RenderPasses(zip.val, data, res, res.tier, FALSE)
            ELSE IF zipF.ok THEN RenderPasses(zipF.val, data, res, "embedded", TRUE)
            ELSE Generated("null", <<>>, res, "none", TRUE, 0, "critical")

\* generateDocxBlob as a whole, for a given outcome of the fetch.
generateDocxBlob(mission, settings, userProfile, libs, response) ==
    IF ~LibsLoaded(libs) THEN LibsMissing
    ELSE GenerateFrom(getTemplateBuffer(settings, response), mission, userProfile)

(***************************************************************************)
(* Dates, file names                                                       *)
(***************************************************************************)

Digits == <<"0", "1", "2", "3", "4", "5", "6", "7", "8", "9">>

\* The calendar date string of day d of January 2024, "2024-01-dd".
DateStr(d) ==
    <<"2", "0", "2", "4", "-", "0", "1", "-", Digits[(d \div 10) + 1], Digits[(d % 10) + 1]>>

MsPerDay == 86400000

MsPerMinute == 60000

\* A Date value: day d of January 2024 and ms milliseconds into it, in
\* UTC; nan marks the Invalid Date.
Time(d, ms) == [nan |-> FALSE, d |-> d, ms |-> ms]

InvalidDate == [nan |-> TRUE, d |-> 0, ms |-> 0]

\* new Date(str): a date-only string is midnight UTC of that day, any
\* other string of the model (the empty one) gives the Invalid Date.
NewDate(str) ==
    IF \E d \in 1..31 : DateStr(d) = str
    THEN Time(CHOOSE d \in 1..31 : DateStr(d) = str, 0)
    ELSE InvalidDate

\* setHours taken for setUTCHours: the hours are set on the UTC day.
setHoursEndOfDay_utc(date, tzOffset) ==
    IF date.nan THEN date
    ELSE LET utcMs == (MsPerDay - 1) - tzOffset * MsPerMinute
         IN Time(date.d + (utcMs \div MsPerDay), utcMs % MsPerDay)

\* date.setHours(23, 59, 59, 999) on a device whose local time is UTC
\* plus tzOffset minutes: the last millisecond of the local day of date.
setHoursEndOfDay(date, tzOffset) ==
    IF date.nan THEN date
    ELSE LET localDay == date.d + ((date.ms + tzOffset * MsPerMinute) \div MsPerDay)
             utcMs == (MsPerDay - 1) - tzOffset * MsPerMinute
         IN Time(localDay + (utcMs \div MsPerDay), utcMs % MsPerDay)

\* a <= b on Date values; a comparison with the Invalid Date is false.
DateLe(a, b) ==
    /\ ~a.nan
    /\ ~b.nan
    /\ \/ a.d < b.d
       \/ a.d = b.d /\ a.ms <= b.ms

\* mDate >= start && mDate <= end
InRange(mDate, start, end) == DateLe(start, mDate) /\ DateLe(mDate, end)

\* The filter of performExport (lines 702-711).
missionsInRange(missionList, exportDates, tzOffset) ==
    LET start == NewDate(exportDates.start)
        end == setHoursEndOfDay(NewDate(exportDates.end), tzOffset)
    IN SelectSeq(missionList, LAMBDA m : InRange(NewDate(m.date), start, end))

\* The length a sanitized title is cut to.
SafeNameLen == 30

\* The sanitized title left at its full length.
safeName_noTruncate(title) ==
    [i \in 1..Len(title) |-> IF title[i] \in Alnum THEN title[i] ELSE "_"]

\* mission.title.replace(/[^a-z0-9]/gi, '_').substring(0, 30)
safeName(title) ==
    LET replaced == [i \in 1..Len(title) |->
                        IF title[i] \in Alnum THEN title[i] ELSE "_"]
    IN SubSeq(replaced, 1, IF Len(replaced) < SafeNameLen THEN Len(replaced) ELSE SafeNameLen)

\* `${mission.date}_${safeName}.docx`
fileName(mission) ==
    mission.date \o <<"_">> \o safeName(mission.title) \o <<".", "d", "o", "c", "x">>

\* `Reports_${exportDates.start}_to_${exportDates.end}.zip`
archiveName(exportDates) ==
    <<"R", "e", "p", "o", "r", "t", "s", "_">> \o exportDates.start
    \o <<"_", "t", "o", "_">> \o exportDates.end \o <<".", "z", "i", "p">>

\* file() that starts a new archive at each call.
ZipFile_replaceAll(zip, name, buffer) == [n \in {name} |-> buffer]

\* An archive that keeps the entry it already has under the name.
ZipFile_keepFirst(zip, name, buffer) ==
    [n \in (DOMAIN zip) \cup {name} |-> IF n \in DOMAIN zip THEN zip[n] ELSE buffer]

\* masterZip.file(name, buffer): an entry of the same name is replaced.
ZipFile(zip, name, buffer) ==
    [n \in (DOMAIN zip) \cup {name} |-> IF n = name THEN buffer ELSE zip[n]]

\* new PizZip(): the empty archive.
EmptyZip == [n \in {} |-> <<>>]

(***************************************************************************)
(* Data of the model                                                       *)
(***************************************************************************)

\* The device offsets from UTC, in minutes (UTC-12, UTC, UTC+14).
TzOffsets == {-720, 0, 840}

\* The days of January 2024 the user types into the export dialog.
ExportDays == {2}

\* new Date(Date.UTC(year, month, 1)) and new Date(Date.UTC(year, month + 1, 0))
\* for the month in view, January 2024.
MonthStart == 1

MonthEnd == 31

NewMission(id, title, day) ==
    [id |-> id, title |-> title, location |-> <<>>, date |-> DateStr(day),
     finishDate |-> Undefined, startTime |-> <<"1", "0", ":", "0", "0">>,
     finishTime |-> Undefined, notes |-> <<>>]

\* The mission lists local storage may hold at start-up.
MissionLists == {
    <<>>,
    <<NewMission("m1", <<"A", " ", "b">>, 1), NewMission("m2", <<"A", "-", "b">>, 2),
      NewMission("m3", <<"A", " ", "b">>, 2)>>,
    <<NewMission("m4", <<"A", "(", "b">>, 3), NewMission("m5", <<"Z", ")", "9">>, 4),
      NewMission("m6", <<"Z", "9">>, 5)>> }

\* Template data: a good archive "PK{title}(cni)", a string that is not
\* base64 (length 3), the base64 of "XY(cni)", which is not an archive.
GoodData == <<"U", "E", "t", "7", "d", "G", "l", "0", "b", "G", "V", "9", "K", "G", "N", "u", "a", "S", "k", "=">>

CorruptData == <<"U", "E", "s">>

NotZipData == <<"W", "F", "k", "o", "Y", "2", "5", "p", "K", "Q", "=", "=">>

NewTemplate(id, data) == [id |-> id, name |-> id, data |-> data]

NewSettings(active, templates) ==
    [activeTemplateId |-> active, customTemplates |-> templates, language |-> "en"]

\* The settings local storage may hold at start-up.
SettingsChoices == {
    NewSettings("default", <<>>),
    NewSettings("good", <<NewTemplate("bad", CorruptData), NewTemplate("good", GoodData)>>),
    NewSettings("bad", <<NewTemplate("bad", CorruptData), NewTemplate("good", GoodData)>>),
    NewSettings("notzip", <<NewTemplate("notzip", NotZipData)>>),
    NewSettings("gone", <<NewTemplate("good", GoodData)>>) }

Profile == [fullName |-> <<"A", "l">>, profession |-> <<>>,
            cni |-> <<"X", "1">>, ppn |-> <<>>]

\* bytes followed by spaces up to n bytes.
Pad(bytes, n) == bytes \o [i \in 1..(n - Len(bytes)) |-> 32]

Response(label, err, ok, contentType, body) ==
    [label |-> label, err |-> err, ok |-> ok, contentType |-> contentType,
     body |-> body]

\* The outcomes of fetch('/default.docx'): a network error, a 404 page,
\* the application shell served as HTML, a document of 101 bytes, the same
\* document cut to 100 bytes, 101 bytes that are not an archive.
FetchOutcomes == {
    Response("error", TRUE, FALSE, "null", <<>>),
    Response("status", FALSE, FALSE, "text/html", Bytes(<<"<", "h", "1", ">">>)),
    Response("html", FALSE, TRUE, "text/html; charset=utf-8", Pad(Bytes(<<"<", "h", "1", ">">>), 101)),
    Response("document", FALSE, TRUE, "application/octet-stream", Pad(Bytes(<<"P", "K", "{", "t", "i", "t", "l", "e", "}">>), 101)),
    Response("tiny", FALSE, TRUE, "null", Pad(Bytes(<<"P", "K", "{", "t", "i", "t", "l", "e", "}">>), 100)),
    Response("junk", FALSE, TRUE, "null", Pad(Bytes(<<"X", "Y">>), 101)) }

(***************************************************************************)
(* State                                                                   *)
(***************************************************************************)

VARIABLES
    libs,               \* window.PizZip, window.docxtemplater: loaded or not
    tzOffset,           \* the offset of the device from UTC, in minutes
    missions,           \* App: the mission list
    settings,           \* App: the settings
    userProfile,        \* App: the user profile
    view,               \* App: the view shown
    selectedMissionId,  \* App: the mission of the details view
    dash,               \* Dashboard: isExporting, showExportModal, exportDates
    exp,                \* the batch export in flight, or the last one
    det,                \* MissionDetails: isDownloading
    dl,                 \* the download in flight, or the last one
    storage,            \* localStorage: the missions and the settings it holds
    boot,               \* App: how far its start-up has come
    detached,           \* the exports in flight of Dashboards no longer mounted
    reader,             \* SettingsView: the FileReader reads in flight
    call                \* the last call of a function followed on its own

vars == <<storage, boot, detached, engine, libs, tzOffset, missions, settings, userProfile, view,
          selectedMissionId, dash, exp, det, dl, reader, call>>

\* An item of local storage: the text JSON.stringify makes of a value
\* ("json"), no item ("null"), or a text JSON.parse rejects ("garbage").
JSONItem(v) == [kind |-> "json", value |-> v]

NoItem == [kind |-> "null", value |-> <<>>]

GarbageItem == [kind |-> "garbage", value |-> <<>>]

\* safeJsonParse (lines 56-64): the value of the item, the fallback when
\* there is no item or JSON.parse throws.
safeJsonParse(item, fallback) ==
    IF item.kind = "json" THEN item.value ELSE fallback

\* What the two effects of lines 1405-1411 leave in local storage.
Stored(missionList, st) ==
    [missions |-> JSONItem(missionList), settings |-> JSONItem(st)]

\* The start-up of App is over: the stored values are loaded.
Started == [pc |-> "ready", missions |-> <<>>, settings |-> <<>>]

\* No FileReader is reading and none has finished: pending holds the
\* reads in flight, loaded counts the reads that have finished.
NoReads == [pending |-> <<>>, loaded |-> 0]

\* No function has been called on its own.
NoCall == [fn |-> "none", in |-> <<>>, out |-> <<>>]

NoDates == [start |-> <<>>, end |-> <<>>]

\* The state of a Dashboard that has just been mounted.
DashInit == [isExporting |-> FALSE, showExportModal |-> FALSE, exportDates |-> NoDates]

\* The state of a MissionDetails that has just been mounted.
DetInit == [isDownloading |-> FALSE]

\* What is kept of a generateDocxBlob answer once its bytes are used.
Summary(g) == [kind |-> g.kind, resolved |-> g.resolved, template |-> g.template,
               resTier |-> g.resTier,
               fetched |-> g.fetched, response |-> g.response, tier |-> g.tier,
               healed |-> g.healed,
               passes |-> g.passes, alert |-> g.alert, name |-> <<>>]

NoBlob == Generated("null", <<>>, NoResolution, "none", FALSE, 0, "none")

NoArchive == [name |-> <<>>, files |-> EmptyZip]

\* No export has been started.
ExpInit == [pc |-> "idle", pizzip |-> FALSE, missions |-> <<>>,
            settings |-> NewSettings("default", <<>>),
            userProfile |-> Profile, dates |-> NoDates, range |-> <<>>, i |-> 1,
            count |-> 0, masterZip |-> EmptyZip, results |-> <<>>, blob |-> NoBlob,
            outcome |-> "none", archive |-> NoArchive]

NoFile == [name |-> <<>>, bytes |-> <<>>]

\* No download has been started.
DlInit == [pc |-> "idle", mission |-> NewMission("none", <<>>, 1),
           settings |-> NewSettings("default", <<>>), userProfile |-> Profile,
           result |-> Summary(NoBlob), outcome |-> "none", file |-> NoFile]

Init ==
    /\ libs = [PizZip |-> FALSE, docxtemplater |-> FALSE]
    /\ engine \in Engines
    /\ tzOffset \in TzOffsets
    /\ missions \in MissionLists
    /\ settings \in SettingsChoices
    /\ userProfile = Profile
    /\ view = "dashboard"
    /\ selectedMissionId = "null"
    /\ dash = DashInit
    /\ exp = ExpInit
    /\ det = DetInit
    /\ dl = DlInit
    /\ storage = Stored(missions, settings)
    /\ boot = Started
    /\ detached = <<>>
    /\ reader = NoReads
    /\ call = NoCall

(***************************************************************************)
(* Batch export: Dashboard.performExport                                   *)
(***************************************************************************)

\* performExport without its finally block.
DashAfter_noFinally(e) == dash

\* The finally block: setIsExporting(false) once the export has ended.
DashAfter(e) ==
    IF e.pc = "idle" THEN [dash EXCEPT !.isExporting = FALSE] ELSE dash

\* A mission whose render gave no document is passed over.
Skip(e, g) == [e EXCEPT !.results = Append(@, Summary(g)), !.i = @ + 1]

\* The catch block of performExport (lines 744-746).
ExportFailed(e) == [e EXCEPT !.pc = "idle", !.outcome = "error"]

\* The end of the loop without the test of count.
FinishExport_alwaysArchive(e) ==
    [e EXCEPT !.pc = "idle", !.outcome = "archive",
              !.archive = [name |-> archiveName(e.dates), files |-> e.masterZip]]

\* After the loop (lines 730-743): no document at all is reported; else
\* the archive is generated and handed out for download.
FinishExport(e) ==
    IF e.count = 0
    THEN [e EXCEPT !.pc = "idle", !.outcome = "noOutput"]
    ELSE [e EXCEPT !.pc = "idle", !.outcome = "archive",
                   !.archive = [name |-> archiveName(e.dates), files |-> e.masterZip]]

\* The loop of performExport (lines 720-729) from mission e.i on, up to the
\* next point where it waits: for the fetch of the default document
\* (pc "fetch"), for the bytes of a rendered document (pc "blob"), or
\* never again (pc "idle").  Advance_liveState is a loop that reads the
\* settings and the profile of the App at each mission.
RECURSIVE Advance(_, _)
RECURSIVE Deliver(_, _, _)
Advance_liveState(e, lb) ==
    IF e.i > Len(e.range) THEN FinishExport(e)
    ELSE IF ~LibsLoaded(lb) THEN Advance(Skip(e, LibsMissing), lb)
    ELSE IF Tier1(settings).kind = "fetch" THEN [e EXCEPT !.pc = "fetch"]
    ELSE Deliver(e, GenerateFrom(Tier1(settings).res, e.range[e.i], userProfile), lb)

Advance(e, lb) ==
    IF e.i > Len(e.range) THEN FinishExport(e)
    ELSE IF ~LibsLoaded(lb) THEN Advance(Skip(e, LibsMissing), lb)
    ELSE IF Tier1(e.settings).kind = "fetch" THEN [e EXCEPT !.pc = "fetch"]
    ELSE Deliver(e, GenerateFrom(Tier1(e.settings).res, e.range[e.i], e.userProfile), lb)

\* A loop that stops at the first mission without a document.
Deliver_abortOnNull(e, g, lb) ==
    IF g.kind = "blob" THEN [e EXCEPT !.pc = "blob", !.blob = g]
    ELSE IF g.kind = "reject" THEN ExportFailed(Skip(e, g))
    ELSE FinishExport(Skip(e, g))

\* The answer g of generateDocxBlob reaches the loop.
Deliver(e, g, lb) ==
    IF g.kind = "blob" THEN [e EXCEPT !.pc = "blob", !.blob = g]
    ELSE IF g.kind = "reject" THEN ExportFailed(Skip(e, g))
    ELSE Advance(Skip(e, g), lb)

\* A loop that goes on to the next mission before the document of this
\* one is in the archive.
AddToArchive_notAwaited(e) ==
    [e EXCEPT !.count = @ + 1,
              !.results = Append(@, [Summary(e.blob) EXCEPT !.name = fileName(e.range[e.i])]),
              !.i = @ + 1,
              !.blob = NoBlob]

\* The document of mission e.i enters the archive (lines 723-727).
AddToArchive(e) ==
    [e EXCEPT !.masterZip = ZipFile(@, fileName(e.range[e.i]), e.blob.bytes),
              !.count = @ + 1,
              !.results = Append(@, [Summary(e.blob) EXCEPT !.name = fileName(e.range[e.i])]),
              !.i = @ + 1,
              !.blob = NoBlob]

\* performExport without the test of an empty selection.
StartExport_noEmptyCheck ==
    LET e0 == [ExpInit EXCEPT !.pizzip = libs.PizZip, !.missions = missions,
                              !.settings = settings,
                              !.userProfile = userProfile,
                              !.dates = dash.exportDates]
        inRange == missionsInRange(missions, dash.exportDates, tzOffset)
    IN IF ~libs.PizZip THEN ExportFailed(e0)
       ELSE Advance([e0 EXCEPT !.range = inRange], libs)

\* performExport up to its first wait (lines 695-721).
StartExport ==
    LET e0 == [ExpInit EXCEPT !.pizzip = libs.PizZip, !.missions = missions,
                              !.settings = settings,
                              !.userProfile = userProfile,
                              !.dates = dash.exportDates]
        inRange == missionsInRange(missions, dash.exportDates, tzOffset)
    IN IF ~libs.PizZip THEN ExportFailed(e0)
       ELSE IF Len(inRange) = 0
            THEN [e0 EXCEPT !.outcome = "empty"]
            ELSE Advance([e0 EXCEPT !.range = inRange], libs)

\* The user opens the export dialog (the button is disabled while
\* isExporting); the record of the last export is dropped.
OpenExportModal ==
    /\ view = "dashboard"
    /\ ~dash.isExporting
    /\ exp' = ExpInit
    /\ dash' = [dash EXCEPT !.showExportModal = TRUE,
                            !.exportDates = [start |-> DateStr(MonthStart),
                                             end |-> DateStr(MonthEnd)]]
    /\ UNCHANGED <<storage, boot, detached, engine, reader, call, libs, tzOffset, missions, settings, userProfile, view,
                   selectedMissionId, det, dl>>

\* The user types or clears the start date of the dialog.
SetExportStart ==
    /\ view = "dashboard"
    /\ dash.showExportModal
    /\ \E v \in {DateStr(d) : d \in ExportDays} \cup {<<>>} :
          /\ v # dash.exportDates.start
          /\ dash' = [dash EXCEPT !.exportDates.start = v]
    /\ UNCHANGED <<storage, boot, detached, engine, reader, call, libs, tzOffset, missions, settings, userProfile, view,
                   selectedMissionId, exp, det, dl>>

\* The user types or clears the end date of the dialog.
SetExportEnd ==
    /\ view = "dashboard"
    /\ dash.showExportModal
    /\ \E v \in {DateStr(d) : d \in ExportDays} \cup {<<>>} :
          /\ v # dash.exportDates.end
          /\ dash' = [dash EXCEPT !.exportDates.end = v]
    /\ UNCHANGED <<storage, boot, detached, engine, reader, call, libs, tzOffset, missions, settings, userProfile, view,
                   selectedMissionId, exp, det, dl>>

\* The user closes the dialog without exporting.
CloseExportModal ==
    /\ view = "dashboard"
    /\ dash.showExportModal
    /\ dash' = [dash EXCEPT !.showExportModal = FALSE]
    /\ UNCHANGED <<storage, boot, detached, engine, reader, call, libs, tzOffset, missions, settings, userProfile, view,
                   selectedMissionId, exp, det, dl>>

\* The user confirms the dialog: performExport runs up to its first wait.
\* One export is followed at a time: the next one is started once the
\* previous one has ended.
PerformExport ==
    /\ view = "dashboard"
    /\ dash.showExportModal
    /\ exp.pc = "idle"
    /\ exp' = StartExport
    /\ dash' = [dash EXCEPT !.showExportModal = FALSE,
                            !.isExporting = (exp'.pc # "idle")]
    /\ UNCHANGED <<storage, boot, detached, engine, reader, call, libs, tzOffset, missions, settings, userProfile, view,
                   selectedMissionId, det, dl>>

\* The fetch of the default document completes for the mission being
\* rendered; the render runs to its end and the loop goes on.
ExportFetchDone ==
    /\ exp.pc = "fetch"
    /\ \E response \in FetchOutcomes :
          exp' = Deliver(exp, GenerateFrom(AfterFetch(response), exp.range[exp.i],
                                           exp.userProfile), libs)
    /\ dash' = DashAfter(exp')
    /\ UNCHANGED <<storage, boot, detached, engine, reader, call, libs, tzOffset, missions, settings, userProfile, view,
                   selectedMissionId, det, dl>>

\* docBlob.arrayBuffer() completes: the document is added and the loop
\* goes on.
ExportBlobRead ==
    /\ exp.pc = "blob"
    /\ exp' = Advance(AddToArchive(exp), libs)
    /\ dash' = DashAfter(exp')
    /\ UNCHANGED <<storage, boot, detached, engine, reader, call, libs, tzOffset, missions, settings, userProfile, view,
                   selectedMissionId, det, dl>>

(***************************************************************************)
(* Single download: MissionDetails.handleDownload                          *)
(***************************************************************************)

\* The answer g of generateDocxBlob reaches handleDownload (lines
\* 1214-1241): a document is named and its click scheduled (pc "click"),
\* null ends the handler, a rejection is caught and reported.
DownloadGot(d, g) ==
    IF g.kind = "blob"
    THEN [d EXCEPT !.pc = "click", !.result = Summary(g),
                   !.outcome = "file",
                   !.file = [name |-> fileName(d.mission), bytes |-> g.bytes]]
    ELSE IF g.kind = "reject"
         THEN [d EXCEPT !.pc = "idle", !.result = Summary(g),
                        !.outcome = "error"]
         ELSE [d EXCEPT !.pc = "idle", !.result = Summary(g),
                        !.outcome = "null"]

\* handleDownload up to its first wait.
StartDownload(mission) ==
    LET d0 == [DlInit EXCEPT !.mission = mission,
                             !.settings = settings, !.userProfile = userProfile]
    IN IF ~LibsLoaded(libs) THEN DownloadGot(d0, LibsMissing)
       ELSE IF Tier1(settings).kind = "fetch" THEN [d0 EXCEPT !.pc = "fetch"]
       ELSE DownloadGot(d0, GenerateFrom(Tier1(settings).res, mission, userProfile))

\* missions.find(m => m.id === selectedMissionId)
findMission(missionList, id) ==
    IF \E i \in 1..Len(missionList) : missionList[i].id = id
    THEN <<missionList[CHOOSE i \in 1..Len(missionList) : missionList[i].id = id]>>
    ELSE <<>>

\* The user presses the download button of the details view (disabled
\* while isDownloading).  One download is followed at a time.
HandleDownload ==
    /\ view = "details"
    /\ findMission(missions, selectedMissionId) # <<>>
    /\ ~det.isDownloading
    /\ dl.pc = "idle"
    /\ dl' = StartDownload(findMission(missions, selectedMissionId)[1])
    /\ det' = [det EXCEPT !.isDownloading = (dl'.pc = "fetch")]
    /\ UNCHANGED <<storage, boot, detached, engine, reader, call, libs, tzOffset, missions, settings, userProfile, view,
                   selectedMissionId, dash, exp>>

\* The fetch of the default document completes for the download.
DownloadFetchDone ==
    /\ dl.pc = "fetch"
    /\ \E response \in FetchOutcomes :
          dl' = DownloadGot(dl, GenerateFrom(AfterFetch(response), dl.mission,
                                             dl.userProfile))
    /\ det' = [det EXCEPT !.isDownloading = FALSE]
    /\ UNCHANGED <<storage, boot, detached, engine, reader, call, libs, tzOffset, missions, settings, userProfile, view,
                   selectedMissionId, dash, exp>>

\* The timer of the download fires: a.click() hands the file out.
DownloadClick ==
    /\ dl.pc = "click"
    /\ dl' = [dl EXCEPT !.pc = "idle"]
    /\ UNCHANGED <<storage, boot, detached, engine, reader, call, libs, tzOffset, missions, settings, userProfile, view,
                   selectedMissionId, dash, exp, det>>

(***************************************************************************)
(* App: navigation, script loading                                         *)
(***************************************************************************)

\* goToDetails: the Dashboard is unmounted, a MissionDetails is mounted.
\* One run of the pipeline is followed at a time: the view is left when no
\* export is in flight, and the record of the last export goes with it.
GoToDetails ==
    /\ view = "dashboard"
    /\ exp.pc = "idle"
    /\ \E i \in 1..Len(missions) : selectedMissionId' = missions[i].id
    /\ view' = "details"
    /\ dash' = DashInit
    /\ exp' = ExpInit
    /\ det' = DetInit
    /\ UNCHANGED <<storage, boot, detached, engine, reader, call, libs, tzOffset, missions, settings, userProfile, dl>>

\* onBack or the home button: the MissionDetails is unmounted, a new
\* Dashboard is mounted.  The view is left when no download is in flight.
GoToDashboard ==
    /\ view = "details"
    /\ dl.pc = "idle"
    /\ view' = "dashboard"
    /\ dash' = DashInit
    /\ det' = DetInit
    /\ dl' = DlInit
    /\ UNCHANGED <<storage, boot, detached, engine, reader, call, libs, tzOffset, missions, settings, userProfile,
                   selectedMissionId, exp>>

\* One of the two script tags of index.html finishes loading.
ScriptLoaded ==
    /\ \E lib \in {"PizZip", "docxtemplater"} :
          /\ ~libs[lib]
          /\ libs' = [libs EXCEPT ![lib] = TRUE]
    /\ UNCHANGED <<storage, boot, detached, engine, reader, call, tzOffset, missions, settings, userProfile, view,
                   selectedMissionId, dash, exp, det, dl>>

Next ==
    \/ OpenExportModal
    \/ SetExportStart
    \/ SetExportEnd
    \/ CloseExportModal
    \/ PerformExport
    \/ ExportFetchDone
    \/ ExportBlobRead
    \/ HandleDownload
    \/ DownloadFetchDone
    \/ DownloadClick
    \/ GoToDetails
    \/ GoToDashboard
    \/ ScriptLoaded

Spec == Init /\ [][Next]_vars

(***************************************************************************)
(* The date filter on its own: every device offset, every range            *)
(***************************************************************************)

\* The missions of SpecFilter are dated day 1 to day MaxDay, one a day.
MaxDay == 5

\* The whole-hour device offsets, UTC-12 to UTC+14, in minutes.
FilterTzOffsets == {60 * h : h \in -12..14}

FilterTitles == <<"a", "b", "c", "d", "e", "f", "g", "h", "i">>

FilterMissions == [d \in 1..MaxDay |-> NewMission(FilterTitles[d], <<FilterTitles[d]>>, d)]

InitFilter ==
    /\ libs = [PizZip |-> TRUE, docxtemplater |-> TRUE]
    /\ engine = [partRaw |-> "unset"]
    /\ tzOffset \in FilterTzOffsets
    /\ missions = FilterMissions
    /\ settings = NewSettings("good", <<NewTemplate("good", GoodData)>>)
    /\ userProfile = Profile
    /\ view = "dashboard"
    /\ selectedMissionId = "null"
    /\ dash = DashInit
    /\ exp = ExpInit
    /\ det = DetInit
    /\ dl = DlInit
    /\ storage = Stored(missions, settings)
    /\ boot = Started
    /\ detached = <<>>
    /\ reader = NoReads
    /\ call = NoCall

\* The user types or clears a date of the dialog: any day from day 1 to
\* the day after the last mission.
FilterSetDates ==
    /\ view = "dashboard"
    /\ dash.showExportModal
    /\ \E v \in {DateStr(d) : d \in 1..(MaxDay + 1)} \cup {<<>>} :
          \/ dash' = [dash EXCEPT !.exportDates.start = v]
          \/ dash' = [dash EXCEPT !.exportDates.end = v]
    /\ dash' # dash
    /\ UNCHANGED <<storage, boot, detached, engine, reader, call, libs, tzOffset, missions, settings, userProfile, view,
                   selectedMissionId, exp, det, dl>>

NextFilter ==
    \/ OpenExportModal
    \/ FilterSetDates
    \/ PerformExport
    \/ ExportBlobRead

SpecFilter == InitFilter /\ [][NextFilter]_vars

(***************************************************************************)
(* Properties                                                              *)
(***************************************************************************)

\* The answers of generateDocxBlob the state remembers, each with the
\* settings it was called with.
Answers ==
    {[r |-> exp.results[i], settings |-> exp.settings] : i \in 1..Len(exp.results)}
    \cup (IF exp.pc = "blob"
          THEN {[r |-> Summary(exp.blob), settings |-> exp.settings]} ELSE {})
    \cup (IF dl.outcome # "none"
          THEN {[r |-> dl.result, settings |-> dl.settings]} ELSE {})

\* The resolver was called for this answer (the libraries were there).
Resolving(a) == a.r.alert # "libs"

\* The active template of the settings is in the list of custom templates.
HasActiveCustom(st) ==
    /\ st.activeTemplateId # "default"
    /\ \E i \in 1..Len(st.customTemplates) :
          st.customTemplates[i].id = st.activeTemplateId

\* The data of the active custom template.
ActiveData(st) ==
    st.customTemplates[CHOOSE i \in 1..Len(st.customTemplates) :
        /\ st.customTemplates[i].id = st.activeTemplateId
        /\ \A k \in 1..(i - 1) : st.customTemplates[k].id # st.activeTemplateId].data

\* The positions of the missions of the export that gave a document.
Rendered == {i \in 1..Len(exp.results) : exp.results[i].kind = "blob"}

\* An export has been started.
ExportStarted == exp.pc # "idle" \/ exp.outcome # "none"

\* The export has ended.
ExportEnded == exp.pc = "idle" /\ exp.outcome # "none"

IsDate(str) == \E d \in 1..31 : DateStr(d) = str

Day(str) == CHOOSE d \in 1..31 : DateStr(d) = str

\* The mission is dated within the requested days, both included.
OnRequestedDays(m, dates) ==
    /\ IsDate(dates.start)
    /\ IsDate(dates.end)
    /\ Day(dates.start) <= Day(m.date)
    /\ Day(m.date) <= Day(dates.end)

\* C1 (as claimed): every call of the resolver resolves to a buffer, it
\* never rejects.
C1_ResolverNeverRejects ==
    \A a \in Answers : Resolving(a) => a.r.resolved

\* C2 (as claimed): when the active custom template does not decode, the
\* resolver goes on to the fetch and answers with tier 2 or tier 3.
C2_CorruptCustomFallsThrough ==
    \A a \in Answers :
        (Resolving(a) /\ HasActiveCustom(a.settings)
         /\ ~base64ToArrayBuffer(ActiveData(a.settings)).ok)
        => (a.r.resolved /\ a.r.fetched /\ a.r.resTier \in {"fetched", "embedded"})

\* C3: whenever the resolved template does not open as an archive, the
\* render is made again with the embedded template and its document is
\* returned; null is answered for an unopenable template only if the
\* embedded template does not decode or open.
C3_SelfHealing ==
    \A a \in Answers :
        (a.r.resolved /\ ~PizZipLoad(a.r.template).ok)
        => IF base64ToArrayBuffer(DEFAULT_TEMPLATE_BASE64).ok
              /\ PizZipLoad(base64ToArrayBuffer(DEFAULT_TEMPLATE_BASE64).val).ok
           THEN a.r.kind = "blob" /\ a.r.tier = "embedded" /\ a.r.passes = 2
           ELSE a.r.kind = "null"

C3_Witness ==
    /\ exp.pc = "blob"
    /\ exp.blob.resTier = "fetched"
    /\ ~PizZipLoad(exp.blob.template).ok
    /\ exp.blob.tier = "embedded"
    /\ Text(exp.blob.bytes) = <<"P", "K">> \o exp.range[exp.i].title
                              \o exp.range[exp.i].date \o exp.userProfile.cni

\* C4: a mission of the batch without a document is only passed over: the
\* export does not end in its error outcome, and either the loop is at a
\* later mission or every mission in range has been rendered.
C4_FailureSkipsOnlyThatMission ==
    \A i \in 1..Len(exp.results) :
        exp.results[i].kind = "null"
        => /\ exp.outcome # "error"
           /\ IF exp.pc = "idle"
              THEN Len(exp.results) = Len(exp.range)
              ELSE exp.i = Len(exp.results) + 1 /\ exp.i <= Len(exp.range)

C4_Witness ==
    /\ ExportEnded
    /\ Len(exp.results) = 3
    /\ exp.results[1].kind = "null"
    /\ exp.results[1].alert = "render"
    /\ exp.results[2].kind = "blob"
    /\ exp.results[3].kind = "blob"

\* C5 (as claimed): if a mission rendered, the export ends with an archive
\* that holds as many documents as there were successful renders.
C5_ArchiveHoldsOneDocumentPerSuccess ==
    (ExportEnded /\ Rendered # {})
    => /\ exp.outcome = "archive"
       /\ Cardinality(DOMAIN exp.archive.files) = Cardinality(Rendered)

\* What performExport does guarantee there: if a mission rendered, the
\* export ends with an archive whose entries are exactly the file names of
\* the successful renders, so it holds as many documents as these renders
\* have distinct names; count is the number of successful renders.
C5_ArchiveHoldsOneDocumentPerName ==
    (ExportEnded /\ Rendered # {})
    => /\ exp.outcome = "archive"
       /\ exp.count = Cardinality(Rendered)
       /\ DOMAIN exp.archive.files = {exp.results[i].name : i \in Rendered}
       /\ \A i \in Rendered : exp.results[i].name = fileName(exp.range[i])

C5_Witness ==
    /\ ExportEnded
    /\ exp.outcome = "archive"
    /\ Len(exp.range) = 3
    /\ Cardinality(Rendered) = 1
    /\ Cardinality(DOMAIN exp.archive.files) = 1

\* C6: the missions selected are exactly those dated from the start day to
\* the end day, both included, whatever the offset of the device.
C6_RangeIsInclusiveCalendarDays ==
    (exp.pizzip /\ IsDate(exp.dates.start) /\ IsDate(exp.dates.end))
    => exp.range = SelectSeq(exp.missions, LAMBDA m : OnRequestedDays(m, exp.dates))

C6_Witness ==
    /\ tzOffset = -720
    /\ exp.pizzip
    /\ exp.dates = [start |-> DateStr(2), end |-> DateStr(4)]
    /\ Len(exp.missions) >= 5
    /\ Len(exp.range) = 3
    /\ exp.range[3].date = DateStr(4)

\* C7: if every mission in range was rendered and none gave a document,
\* the export ends with the no-output outcome and no archive is handed out.
C7_NoOutputWhenAllFail ==
    (exp.pc = "idle" /\ Len(exp.results) > 0 /\ Rendered = {})
    => exp.outcome = "noOutput" /\ exp.archive = NoArchive

C7_Witness ==
    /\ exp.outcome = "noOutput"
    /\ Len(exp.results) = 3
    /\ \A i \in 1..3 : exp.results[i].alert = "template"

\* C8 (as claimed): if no mission is dated in the requested range, the
\* export ends with the empty-selection outcome, without a render, a
\* resolution or an archive.
C8_EmptySelectionReported ==
    (ExportStarted /\ \A i \in 1..Len(exp.missions) :
                          ~OnRequestedDays(exp.missions[i], exp.dates))
    => /\ exp.pc = "idle"
       /\ exp.outcome = "empty"
       /\ exp.results = <<>>
       /\ exp.archive = NoArchive

\* C8 (amended): if no mission is dated in the requested range, the export
\* ends without a render, a resolution or an archive; its outcome is the
\* empty selection if PizZip is loaded, the export error if it is not.
C8_EmptySelectionOrNoLibrary ==
    (ExportStarted /\ \A i \in 1..Len(exp.missions) :
                          ~OnRequestedDays(exp.missions[i], exp.dates))
    => /\ exp.pc = "idle"
       /\ exp.outcome = IF exp.pizzip THEN "empty" ELSE "error"
       /\ exp.results = <<>>
       /\ exp.archive = NoArchive

C8_Witness ==
    /\ exp.outcome = "empty"
    /\ Len(exp.missions) = 3
    /\ IsDate(exp.dates.start)
    /\ IsDate(exp.dates.end)

\* C9: generateDocxBlob answers a document, complete after its two passes,
\* or null, and never rejects; performExport and handleDownload end in one
\* of their own outcomes.
C9_NoExceptionEscapes ==
    /\ \A a \in Answers :
          /\ a.r.kind \in {"blob", "null"}
          /\ a.r.kind = "blob" => a.r.passes = 2
          /\ a.r.kind = "null" => a.r.alert \in {"libs", "template", "critical", "render"}
    /\ exp.outcome \in {"none", "empty", "noOutput", "archive", "error"}
    /\ dl.outcome \in {"none", "file", "null"}

C9_Witness ==
    /\ dl.outcome = "null"
    /\ dl.result.resTier = "custom"
    /\ ~dl.result.resolved
    /\ dl.result.alert = "template"

\* The outcomes of the fetch the resolver must not take as the template.
RejectedResponses == {"error", "status", "html", "tiny"}

\* C10: the fetch is issued only if tier 1 returned nothing, the embedded
\* template is used only after a fetch whose result was rejected, and an
\* active custom template that decodes is returned without any fetch.
C10_TiersInOrder ==
    /\ \A a \in Answers :
          Resolving(a)
          => /\ a.r.fetched => ~HasActiveCustom(a.settings)
             /\ a.r.resTier = "embedded"
                => a.r.fetched /\ a.r.response \in RejectedResponses
             /\ a.r.resTier = "fetched"
                => a.r.fetched /\ a.r.response \notin RejectedResponses
             /\ (HasActiveCustom(a.settings)
                 /\ base64ToArrayBuffer(ActiveData(a.settings)).ok)
                => /\ a.r.resTier = "custom"
                   /\ ~a.r.fetched
                   /\ a.r.template = base64ToArrayBuffer(ActiveData(a.settings)).val
    /\ exp.pc = "fetch" => ~HasActiveCustom(exp.settings)
    /\ dl.pc = "fetch" => ~HasActiveCustom(dl.settings)

C10_Witness ==
    /\ exp.pc = "blob"
    /\ Len(exp.results) = 1
    /\ exp.settings.activeTemplateId = "good"
    /\ exp.results[1].resTier = "custom"
    /\ ~exp.results[1].fetched
    /\ exp.blob.resTier = "custom"

(***************************************************************************)
(* The resolver on its own: every settings, every outcome of the fetch     *)
(***************************************************************************)

\* The sizes of a fetched payload, around the threshold of line 130.
PayloadSizes == {0, MinTemplateBytes - 1, MinTemplateBytes, MinTemplateBytes + 1}

\* A payload of n bytes that starts as a good archive.
Payload(n) ==
    SubSeq(Pad(Bytes(<<"P", "K", "{", "t", "i", "t", "l", "e", "}">>),
               MinTemplateBytes + 1), 1, n)

\* The outcomes of the fetch: a rejection of fetch or of arrayBuffer(), or
\* a response with any status, content type and payload size.
ResolverResponses ==
    {Response("rejected", TRUE, ok, "null", <<>>) : ok \in BOOLEAN}
    \cup {Response("response", FALSE, ok, ct, Payload(n)) :
            ok \in BOOLEAN, ct \in ContentTypes, n \in PayloadSizes}

\* The settings the resolver is called with: those of SettingsChoices and
\* two more whose active template is not in the list.
ResolverSettings ==
    SettingsChoices
    \cup {NewSettings("gone", <<>>),
          NewSettings("gone", <<NewTemplate("bad", CorruptData),
                                NewTemplate("good", GoodData)>>)}

InitResolver ==
    /\ libs = [PizZip |-> TRUE, docxtemplater |-> TRUE]
    /\ engine = [partRaw |-> "unset"]
    /\ tzOffset = 0
    /\ missions = <<>>
    /\ settings \in ResolverSettings
    /\ userProfile = Profile
    /\ view = "dashboard"
    /\ selectedMissionId = "null"
    /\ dash = DashInit
    /\ exp = ExpInit
    /\ det = DetInit
    /\ dl = DlInit
    /\ storage = Stored(missions, settings)
    /\ boot = Started
    /\ detached = <<>>
    /\ reader = NoReads
    /\ call = NoCall

\* getTemplateBuffer(settings) is called and the fetch, if issued, ends
\* with the given outcome.
ResolveTemplate ==
    /\ \E response \in ResolverResponses :
          call' = [fn |-> "getTemplateBuffer",
                   in |-> [settings |-> settings, response |-> response],
                   out |-> getTemplateBuffer(settings, response)]
    /\ UNCHANGED <<storage, boot, detached, engine, libs, tzOffset, missions, settings, userProfile, view,
                   selectedMissionId, dash, exp, det, dl, reader>>

NextResolver == ResolveTemplate

SpecResolver == InitResolver /\ [][NextResolver]_vars

\* The resolver has been called and has asked for the default document.
Fetched == call.fn = "getTemplateBuffer" /\ call.out.fetched

\* The bytes of the embedded template.
Embedded == base64ToArrayBuffer(DEFAULT_TEMPLATE_BASE64)

\* C11: the fetched document is returned only if the fetch ended without
\* error, with a success status, a content type that is not HTML and more
\* than 100 bytes; in every other case, 100 bytes included, the resolver
\* answers with the embedded template.
C11_FetchedTemplateAccepted ==
    Fetched =>
       LET response == call.in.response
       IN IF /\ ~response.err
             /\ response.ok
             /\ response.contentType \notin {"text/html", "text/html; charset=utf-8"}
             /\ Len(response.body) > 100
          THEN /\ call.out.ok
               /\ call.out.tier = "fetched"
               /\ call.out.val = response.body
          ELSE /\ call.out.tier = "embedded"
               /\ call.out.ok = Embedded.ok
               /\ call.out.val = Embedded.val

C11_Witness ==
    /\ Fetched
    /\ ~call.in.response.err
    /\ call.in.response.ok
    /\ call.in.response.contentType = "application/octet-stream"
    /\ Len(call.in.response.body) = 100
    /\ call.out.tier = "embedded"
    /\ call.out.val = Embedded.val

\* C12: an active template id that is not in the list is treated as
\* "default": the resolver does not fail and answers what it answers for
\* "default" under the same outcome of the fetch.
C12_MissingIdIsDefault ==
    (/\ call.fn = "getTemplateBuffer"
     /\ call.in.settings.activeTemplateId # "default"
     /\ ~HasActiveCustom(call.in.settings))
    => /\ call.out.ok
       /\ call.out.fetched
       /\ call.out = getTemplateBuffer(
              [call.in.settings EXCEPT !.activeTemplateId = "default"],
              call.in.response)

C12_Witness ==
    /\ call.fn = "getTemplateBuffer"
    /\ call.in.settings.activeTemplateId = "gone"
    /\ Len(call.in.settings.customTemplates) = 2
    /\ call.out.ok
    /\ call.out.tier = "fetched"

\* C13: with the default template active and the network unreachable (the
\* fetch rejects or its status is not a success), the resolver returns
\* the decoded embedded template, a non-empty buffer that opens as an
\* archive.
C13_EmbeddedWhenUnreachable ==
    (/\ call.fn = "getTemplateBuffer"
     /\ call.in.settings.activeTemplateId = "default"
     /\ (call.in.response.err \/ ~call.in.response.ok))
    => /\ call.out.ok
       /\ call.out.tier = "embedded"
       /\ call.out.val = Embedded.val
       /\ Len(call.out.val) > 0
       /\ PizZipLoad(call.out.val).ok

C13_Witness ==
    /\ call.fn = "getTemplateBuffer"
    /\ call.in.settings.activeTemplateId = "default"
    /\ call.in.response.err
    /\ call.out.ok
    /\ call.out.tier = "embedded"
    /\ Len(call.out.val) > 0

(***************************************************************************)
(* SettingsView: upload, selection, deletion of templates                  *)
(***************************************************************************)

\* The number of files the user uploads.
MaxUploads == 2

\* generateId(): the id of the k-th template that finishes loading.
UploadIds == <<"u1", "u2", "u3", "u4">>

\* What reader.readAsDataURL gives after the comma for the files the user
\* picks: a good document, a file that is no archive, an empty file.
UploadData == {GoodData, NotZipData, <<>>}

\* The settings the view starts from.
SettingsStart ==
    {NewSettings("default", <<>>),
     NewSettings("good", <<NewTemplate("bad", CorruptData), NewTemplate("good", GoodData)>>),
     NewSettings("default", <<NewTemplate("notzip", NotZipData)>>)}

\* reader.onload (lines 412-426): the new template goes to the top of the
\* list of the settings the handler was created with, and becomes active.
addTemplate(st, newTemplate) ==
    [st EXCEPT !.customTemplates = <<newTemplate>> \o @,
               !.activeTemplateId = newTemplate.id]

\* customTemplates.filter(t => t.id !== id)
RECURSIVE filterOut(_, _)
filterOut(list, id) ==
    IF list = <<>> THEN <<>>
    ELSE IF Head(list).id = id THEN filterOut(Tail(list), id)
    ELSE <<Head(list)>> \o filterOut(Tail(list), id)

\* A deletion that leaves the active id as it is.
deleteTemplate_keepActive(st, id) ==
    [st EXCEPT !.customTemplates = filterOut(@, id)]

\* deleteTemplate (lines 431-437)
deleteTemplate(st, id) ==
    [st EXCEPT !.customTemplates = filterOut(@, id),
               !.activeTemplateId = IF @ = id THEN "default" ELSE @]

\* onClick of an entry of the list (line 515)
selectTemplate(st, id) == [st EXCEPT !.activeTemplateId = id]

InitSettings ==
    /\ libs = [PizZip |-> TRUE, docxtemplater |-> TRUE]
    /\ engine = [partRaw |-> "unset"]
    /\ tzOffset = 0
    /\ missions = <<>>
    /\ settings \in SettingsStart
    /\ userProfile = Profile
    /\ view = "dashboard"
    /\ selectedMissionId = "null"
    /\ dash = DashInit
    /\ exp = ExpInit
    /\ det = DetInit
    /\ dl = DlInit
    /\ storage = Stored(missions, settings)
    /\ boot = Started
    /\ detached = <<>>
    /\ reader = NoReads
    /\ call = NoCall

\* onOpenSettings: the settings view is shown.
OpenSettings ==
    /\ view = "dashboard"
    /\ view' = "settings"
    /\ dash' = DashInit
    /\ UNCHANGED <<storage, boot, detached, engine, libs, tzOffset, missions, settings, userProfile,
                   selectedMissionId, exp, det, dl, reader, call>>

\* onBack of the settings view.
SettingsBack ==
    /\ view = "settings"
    /\ view' = "dashboard"
    /\ UNCHANGED <<storage, boot, detached, engine, libs, tzOffset, missions, settings, userProfile,
                   selectedMissionId, dash, exp, det, dl, reader, call>>

\* handleFileUpload: the user picks a file and the reader starts; its
\* onload handler keeps the settings of the render that created it.
HandleFileUpload ==
    /\ view = "settings"
    /\ reader.loaded + Len(reader.pending) < MaxUploads
    /\ \E data \in UploadData :
          reader' = [reader EXCEPT
                        !.pending = Append(@, [settings |-> settings, data |-> data])]
    /\ UNCHANGED <<storage, boot, detached, engine, libs, tzOffset, missions, settings, userProfile, view,
                   selectedMissionId, dash, exp, det, dl, call>>

\* reader.onload of one of the reads in flight: onUpdate is setSettings of
\* App, so it acts in whatever view is shown.
ReaderLoaded ==
    /\ \E i \in 1..Len(reader.pending) :
          LET read == reader.pending[i]
              newTemplate == NewTemplate(UploadIds[reader.loaded + 1], read.data)
          IN /\ settings' = addTemplate(read.settings, newTemplate)
             /\ reader' = [pending |-> SubSeq(reader.pending, 1, i - 1)
                                       \o SubSeq(reader.pending, i + 1,
                                                 Len(reader.pending)),
                           loaded |-> reader.loaded + 1]
             /\ call' = [fn |-> "addTemplate", in |-> newTemplate.id,
                         out |-> settings']
    /\ UNCHANGED <<boot, detached, engine, libs, tzOffset, missions, userProfile, view,
                   selectedMissionId, dash, exp, det, dl>>
    /\ storage' = Stored(missions', settings')

\* The user clicks an entry of the list of templates.
SelectTemplate ==
    /\ view = "settings"
    /\ \E i \in 1..Len(settings.customTemplates) :
          /\ settings' = selectTemplate(settings, settings.customTemplates[i].id)
          /\ call' = [fn |-> "selectTemplate",
                      in |-> settings.customTemplates[i].id, out |-> settings']
    /\ settings' # settings
    /\ UNCHANGED <<boot, detached, engine, libs, tzOffset, missions, userProfile, view,
                   selectedMissionId, dash, exp, det, dl, reader>>
    /\ storage' = Stored(missions', settings')

\* The user clicks the bin of an entry; the bin is shown for the entries
\* that are not active (line 519).
DeleteTemplate ==
    /\ view = "settings"
    /\ \E i \in 1..Len(settings.customTemplates) :
          /\ settings.customTemplates[i].id # settings.activeTemplateId
          /\ settings' = deleteTemplate(settings, settings.customTemplates[i].id)
          /\ call' = [fn |-> "deleteTemplate",
                      in |-> settings.customTemplates[i].id, out |-> settings']
    /\ UNCHANGED <<boot, detached, engine, libs, tzOffset, missions, userProfile, view,
                   selectedMissionId, dash, exp, det, dl, reader>>
    /\ storage' = Stored(missions', settings')

\* The user clicks "Reset to Default", shown when a custom template is
\* active (lines 486-494).
ResetToDefault ==
    /\ view = "settings"
    /\ settings.activeTemplateId # "default"
    /\ settings' = [settings EXCEPT !.activeTemplateId = "default"]
    /\ call' = [fn |-> "resetToDefault", in |-> settings.activeTemplateId,
                out |-> settings']
    /\ UNCHANGED <<boot, detached, engine, libs, tzOffset, missions, userProfile, view,
                   selectedMissionId, dash, exp, det, dl, reader>>
    /\ storage' = Stored(missions', settings')

NextSettings ==
    \/ OpenSettings
    \/ SettingsBack
    \/ HandleFileUpload
    \/ ReaderLoaded
    \/ SelectTemplate
    \/ DeleteTemplate
    \/ ResetToDefault

SpecSettings == InitSettings /\ [][NextSettings]_vars

\* The active id of the settings is "default" or the id of an entry.
ActiveIdKnown(st) ==
    \/ st.activeTemplateId = "default"
    \/ \E i \in 1..Len(st.customTemplates) :
          st.customTemplates[i].id = st.activeTemplateId

\* C14: after every sequence of uploads, selections, deletions and resets
\* the active id is "default" or the id of an entry of the list, and
\* deleteTemplate of the active template would leave "default" active.
C14_ActiveTemplateInList ==
    /\ ActiveIdKnown(settings)
    /\ \A i \in 1..Len(settings.customTemplates) :
          LET id == settings.customTemplates[i].id
          IN /\ ActiveIdKnown(deleteTemplate(settings, id))
             /\ id = settings.activeTemplateId
                => deleteTemplate(settings, id).activeTemplateId = "default"

C14_Witness ==
    /\ call.fn = "deleteTemplate"
    /\ reader.loaded = 2
    /\ settings.activeTemplateId = "u2"
    /\ Len(settings.customTemplates) = 2
    /\ \A i \in 1..2 : settings.customTemplates[i].id # call.in

(***************************************************************************)
(* Batch export: order and termination                                     *)
(***************************************************************************)

\* A render of the export is in flight: the export waits for the fetch of
\* the default document or for the bytes of the rendered document.
RenderInFlight == exp.pc \in {"fetch", "blob"}

\* C15: the missions of an export are rendered one at a time in the order
\* of the filtered list: while the render of mission i is in flight every
\* mission before it has its answer, in order, and the documents of those
\* that rendered are all in the archive; no other render is in flight.
C15_OneRenderAtATime ==
    ExportStarted
    => /\ Len(exp.results) <= Len(exp.range)
       /\ RenderInFlight
          => /\ exp.i = Len(exp.results) + 1
             /\ exp.i <= Len(exp.range)
       /\ \A k \in Rendered : exp.results[k].name = fileName(exp.range[k])
       /\ DOMAIN exp.masterZip = {fileName(exp.range[k]) : k \in Rendered}
       /\ exp.count = Cardinality(Rendered)

C15_Witness ==
    /\ exp.pc = "fetch"
    /\ exp.i = 3
    /\ Len(exp.range) = 3
    /\ Rendered = {1, 2}
    /\ Cardinality(DOMAIN exp.masterZip) = 2

\* Every fetch of the default document completes: weak fairness of
\* ExportFetchDone.  The action is enabled exactly when the export waits
\* for the fetch (exp.pc = "fetch") and is the only one that changes exp
\* then, so WF_vars(ExportFetchDone) is written with these two facts.
FetchCompletes ==
    \/ []<>(exp.pc # "fetch")
    \/ []<><<exp.pc = "fetch" /\ exp' # exp>>_vars

\* Every read of the bytes of a rendered document completes: weak
\* fairness of ExportBlobRead, written the same way.
BlobReadCompletes ==
    \/ []<>(exp.pc # "blob")
    \/ []<><<exp.pc = "blob" /\ exp' # exp>>_vars

SpecLive == Init /\ [][Next]_vars /\ FetchCompletes /\ BlobReadCompletes

\* The export is running: performExport waits for a fetch or for bytes.
ExportRunning == exp.pc # "idle"

\* C16: a started export ends after finitely many steps with the archive
\* or a reported failure; when it ends with the archive or with "no
\* output" every selected mission has been attempted exactly once; and
\* isExporting is true only while it runs, false again however it ends.
C16_ExportTerminates ==
    /\ [](dash.isExporting => ExportRunning)
    /\ [](ExportEnded
          => /\ exp.outcome \in {"archive", "noOutput", "empty", "error"}
             /\ exp.outcome \in {"archive", "noOutput"}
                => /\ Len(exp.results) = Len(exp.range)
                   /\ exp.i = Len(exp.range) + 1
             /\ exp.outcome = "archive" <=> exp.archive # NoArchive)
    /\ (ExportRunning ~> (ExportEnded /\ ~dash.isExporting))

C16_Witness ==
    /\ ExportEnded
    /\ ~dash.isExporting
    /\ exp.outcome = "archive"
    /\ Len(exp.results) = 3
    /\ Rendered = {2, 3}

(***************************************************************************)
(* The codec on its own: every short string                                *)
(***************************************************************************)

\* The longest string handed to base64ToArrayBuffer.
MaxCodecLen == 5

\* The characters of these strings: two of the base64 alphabet ("Q" is
\* 16, "R" is 17), the padding, two kinds of whitespace, one character
\* outside the alphabet.
CodecChars == {"Q", "R", "=", " ", "\n", "-"}

CodecInputs ==
    {Undefined} \cup UNION {[1..n -> CodecChars] : n \in 0..MaxCodecLen}

\* The encoder that produces the data of a template: readAsDataURL gives
\* the base64 of the bytes of the file, three bytes to four characters,
\* the last group padded with "=".
B64Encode(bytes) ==
    LET n == Len(bytes)
        byte(i) == IF i <= n THEN bytes[i] ELSE 0
        group(g) == byte(3 * g + 1) * 65536 + byte(3 * g + 2) * 256 + byte(3 * g + 3)
    IN [k \in 1..(4 * ((n + 2) \div 3)) |->
           LET g == (k - 1) \div 4
               pos == (k - 1) % 4
               have == n - 3 * g
               v == group(g)
           IN IF pos = 2 /\ have < 2 THEN "="
              ELSE IF pos = 3 /\ have < 3 THEN "="
              ELSE IF pos = 0 THEN B64Alphabet[(v \div 262144) + 1]
              ELSE IF pos = 1 THEN B64Alphabet[((v \div 4096) % 64) + 1]
              ELSE IF pos = 2 THEN B64Alphabet[((v \div 64) % 64) + 1]
              ELSE B64Alphabet[(v % 64) + 1]]

InitCodec ==
    /\ libs = [PizZip |-> TRUE, docxtemplater |-> TRUE]
    /\ engine = [partRaw |-> "unset"]
    /\ tzOffset = 0
    /\ missions = <<>>
    /\ settings = NewSettings("default", <<>>)
    /\ userProfile = Profile
    /\ view = "dashboard"
    /\ selectedMissionId = "null"
    /\ dash = DashInit
    /\ exp = ExpInit
    /\ det = DetInit
    /\ dl = DlInit
    /\ storage = Stored(missions, settings)
    /\ boot = Started
    /\ detached = <<>>
    /\ reader = NoReads
    /\ call \in {[fn |-> "input", in |-> s, out |-> <<>>] : s \in CodecInputs}

\* base64ToArrayBuffer is applied to the string.
DecodeBase64 ==
    /\ call.fn = "input"
    /\ call' = [fn |-> "base64ToArrayBuffer", in |-> call.in,
                out |-> base64ToArrayBuffer(call.in)]
    /\ UNCHANGED <<storage, boot, detached, engine, libs, tzOffset, missions, settings, userProfile, view,
                   selectedMissionId, dash, exp, det, dl, reader>>

NextCodec == DecodeBase64

SpecCodec == InitCodec /\ [][NextCodec]_vars

\* base64ToArrayBuffer has been applied.
Decoded == call.fn = "base64ToArrayBuffer"

\* The string without its spaces and newlines.
NonSpace(s) == SelectSeq(s, LAMBDA c : c \notin {" ", "\n"})

\* Position i of t holds padding: "=" in one of the last two places, with
\* nothing but "=" after it.
IsPadding(t, i) ==
    /\ t[i] = "="
    /\ i >= Len(t) - 1
    /\ \A j \in i..Len(t) : t[j] = "="

\* A string of base64: not empty, a multiple of 4 long, characters of the
\* alphabet followed by at most two "=".
WellFormed(t) ==
    /\ t # Undefined
    /\ Len(t) > 0
    /\ Len(t) % 4 = 0
    /\ \A i \in 1..Len(t) : t[i] \in B64Chars \/ IsPadding(t, i)

\* A well-formed string whose unused bits before the padding are zero: the
\* string an encoder produces.
Canonical(t) ==
    /\ WellFormed(t)
    /\ (t[Len(t)] = "=" /\ t[Len(t) - 1] # "=") => B64Val(t[Len(t) - 1]) % 4 = 0
    /\ (t[Len(t)] = "=" /\ t[Len(t) - 1] = "=") => B64Val(t[Len(t) - 2]) % 16 = 0

\* C17: base64ToArrayBuffer fails, and returns no buffer, for an input
\* that is absent or empty, whose length is not a multiple of 4, or that
\* holds, once the whitespace is removed, a character that is neither of
\* the base64 alphabet nor padding at the end.
C17_MalformedInputFails ==
    (Decoded
     /\ \/ call.in = Undefined
        \/ call.in = <<>>
        \/ Len(call.in) % 4 # 0
        \/ \E i \in 1..Len(NonSpace(call.in)) :
              /\ NonSpace(call.in)[i] \notin B64Chars
              /\ ~IsPadding(NonSpace(call.in), i))
    => (~call.out.ok /\ call.out.val = <<>>)

C17_Witness ==
    /\ Decoded
    /\ call.in = <<"Q", "-", "Q", "Q">>
    /\ ~call.out.ok

\* C18 (as claimed): whitespace put anywhere into a string of base64 does
\* not change the result: the decoding succeeds with the bytes of the
\* string without the whitespace.
C18_WhitespaceIgnored ==
    (Decoded /\ call.in # Undefined /\ WellFormed(NonSpace(call.in)))
    => /\ call.out.ok
       /\ call.out = base64ToArrayBuffer(NonSpace(call.in))

\* C19 (as claimed): decoding a well-formed string and encoding the bytes
\* again gives the string back.
C19_RoundTrip ==
    (Decoded /\ WellFormed(call.in))
    => (call.out.ok /\ B64Encode(call.out.val) = call.in)

\* C19 (amended): decoding a canonical string (well-formed, the unused
\* bits of its last character zero) and encoding the bytes again gives
\* the string back.
C19_RoundTripOfCanonical ==
    (Decoded /\ Canonical(call.in))
    => (call.out.ok /\ B64Encode(call.out.val) = call.in)

C19_Witness ==
    /\ Decoded
    /\ call.in = <<"Q", "Q", "=", "=">>
    /\ call.out.ok
    /\ call.out.val = <<65>>
    /\ B64Encode(call.out.val) = call.in

(***************************************************************************)
(* The names of the documents of an archive                                *)
(***************************************************************************)

\* The longest of the short titles.
MaxTitleLen == 3

\* The characters of the titles: a capital, a small letter, a digit, and
\* three characters outside [A-Za-z0-9].
TitleChars == {"A", "z", "9", " ", "-", "_"}

\* A title of n characters, every seventh of which is a space.
LongTitle(n) == [i \in 1..n |-> IF i % 7 = 0 THEN " " ELSE "a"]

\* The titles: every short one, and long ones around the length a
\* sanitized title is cut to.
NameTitles ==
    UNION {[1..n -> TitleChars] : n \in 0..MaxTitleLen}
    \cup {LongTitle(n) : n \in (SafeNameLen - 1)..(SafeNameLen + 2)}

\* The missions to name: what is not the date or the title varies too.
NameMissions ==
    {[NewMission(id, title, day) EXCEPT !.location = loc] :
        id \in {"m1", "m2"}, title \in NameTitles, day \in {1, 12},
        loc \in {<<>>, <<"A", " ", "b">>}}

InitNames ==
    /\ libs = [PizZip |-> TRUE, docxtemplater |-> TRUE]
    /\ engine = [partRaw |-> "unset"]
    /\ tzOffset = 0
    /\ missions = <<>>
    /\ settings = NewSettings("default", <<>>)
    /\ userProfile = Profile
    /\ view = "dashboard"
    /\ selectedMissionId = "null"
    /\ dash = DashInit
    /\ exp = ExpInit
    /\ det = DetInit
    /\ dl = DlInit
    /\ storage = Stored(missions, settings)
    /\ boot = Started
    /\ detached = <<>>
    /\ reader = NoReads
    /\ call \in {[fn |-> "mission", in |-> m, out |-> EmptyZip] : m \in NameMissions}

\* The document of the mission is put into a new archive: lines 724-726 of
\* performExport.
NameDocument ==
    /\ call.fn = "mission"
    /\ call' = [fn |-> "masterZip.file", in |-> call.in,
                out |-> ZipFile(EmptyZip, fileName(call.in), <<80, 75>>)]
    /\ UNCHANGED <<storage, boot, detached, engine, libs, tzOffset, missions, settings, userProfile, view,
                   selectedMissionId, dash, exp, det, dl, reader>>

NextNames == NameDocument

SpecNames == InitNames /\ [][NextNames]_vars

\* The document has been put into the archive.
Named == call.fn = "masterZip.file"

\* The first 30 characters of a string.
First30(t) == SubSeq(t, 1, IF Len(t) < 30 THEN Len(t) ELSE 30)

\* One of the characters A-Z, a-z, 0-9.
IsAlnum(c) ==
    \E i \in 1..Len(Ascii) :
        /\ Ascii[i] = c
        /\ i + 31 \in (48..57) \cup (65..90) \cup (97..122)

DocxExt == <<".", "d", "o", "c", "x">>

\* C20 (as claimed): the document is stored under
\* {date}_{sanitizedTitle}.docx, the sanitized title being the title
\* without its characters outside [A-Za-z0-9], cut to 30 characters.
C20_NameStripsTitle ==
    Named =>
        DOMAIN call.out =
            {call.in.date \o <<"_">>
                \o First30(SelectSeq(call.in.title, IsAlnum)) \o DocxExt}

\* C20 (amended): the document is stored under
\* {date}_{sanitizedTitle}.docx, the sanitized title being the title with
\* each character outside [A-Za-z0-9] replaced by "_", cut to 30
\* characters; the name depends on the date and the title only.
C20_NameReplacesInTitle ==
    Named =>
        DOMAIN call.out =
            {call.in.date \o <<"_">>
                \o First30([i \in 1..Len(call.in.title) |->
                               IF IsAlnum(call.in.title[i])
                               THEN call.in.title[i] ELSE "_"])
                \o DocxExt}

C20_Witness ==
    /\ Named
    /\ call.in.title = LongTitle(32)
    /\ call.in.location # <<>>
    /\ DOMAIN call.out =
           {DateStr(12) \o <<"_">>
               \o [i \in 1..30 |-> IF i % 7 = 0 THEN "_" ELSE "a"] \o DocxExt}

(***************************************************************************)
(* The renderer on its own: small templates, every engine                  *)
(***************************************************************************)

\* The directive of a key between the delimiters of a pass.
Directive(start, name, end) == <<start>> \o name \o <<end>>

\* Templates whose one directive has a key the mapping does not hold:
\* before and after are plain text.
AbsentKeyCases == {
    [before |-> <<"a">>, directive |-> Directive("{", <<"f", "o", "o">>, "}"),
     after |-> <<"b">>],
    [before |-> <<"a">>, directive |-> Directive("(", <<"f", "o", "o">>, ")"),
     after |-> <<"b">>],
    [before |-> <<>>, directive |-> Directive("{", <<"x", "(", "y">>, "}"),
     after |-> <<>>] }

\* The texts of the templates: one directive of an absent key; each key
\* of the mapping, and id, in both passes; plain text; a directive left
\* open in pass 1, one left open in pass 2.
RenderTexts ==
    {c.before \o c.directive \o c.after : c \in AbsentKeyCases}
    \cup {Directive("{", KeyChars[k], "}") \o <<"|">> \o Directive("(", KeyChars[k], ")") :
             k \in FieldKeys}
    \cup {Directive("{", <<"i", "d">>, "}") \o Directive("(", <<"i", "d">>, ")"),
          <<"a", "b">>,
          <<"{", "t", "i", "t", "l", "e">>,
          <<"(", "t", "i", "t", "l", "e">>}

\* The missions rendered: a title, none, or one that reads as a directive
\* of pass 2; a finish date, none, or an empty one; a location or none.
RenderMissions ==
    {[NewMission("m1", title, 2) EXCEPT !.finishDate = fin, !.location = loc,
                                        !.finishTime = fin] :
        title \in {<<"T">>, <<>>, <<"(", "c", "n", "i", ")">>},
        fin \in {Undefined, <<>>, DateStr(3)},
        loc \in {<<>>, <<"L">>}}

\* The profiles: the one of the other specifications, and one read from a
\* store that holds no cni and an empty name.
RenderProfiles ==
    {Profile,
     [fullName |-> <<>>, profession |-> <<"P">>, cni |-> Undefined, ppn |-> <<"7">>]}

\* The settings whose active template is the archive of the text.
SettingsOf(text) ==
    NewSettings("t", <<NewTemplate("t", B64Encode(ZipSignature \o Bytes(text)))>>)

InitRender ==
    /\ libs = [PizZip |-> TRUE, docxtemplater |-> TRUE]
    /\ engine \in Engines
    /\ tzOffset = 0
    /\ missions = <<>>
    /\ settings = NewSettings("default", <<>>)
    /\ userProfile = Profile
    /\ view = "dashboard"
    /\ selectedMissionId = "null"
    /\ dash = DashInit
    /\ exp = ExpInit
    /\ det = DetInit
    /\ dl = DlInit
    /\ storage = Stored(missions, settings)
    /\ boot = Started
    /\ detached = <<>>
    /\ reader = NoReads
    /\ call \in {[fn |-> "input",
                  in |-> [text |-> t, mission |-> m, settings |-> SettingsOf(t),
                          userProfile |-> p],
                  out |-> NoBlob] :
                    t \in RenderTexts, m \in RenderMissions, p \in RenderProfiles}

\* generateDocxBlob is applied to the mission, the settings and the
\* profile; tier 1 answers, so no fetch is made.
RenderDocument ==
    /\ call.fn = "input"
    /\ call' = [fn |-> "generateDocxBlob", in |-> call.in,
                out |-> generateDocxBlob(call.in.mission, call.in.settings,
                                         call.in.userProfile, libs,
                                         Response("error", TRUE, FALSE, "null", <<>>))]
    /\ UNCHANGED <<storage, boot, detached, engine, libs, tzOffset, missions, settings, userProfile, view,
                   selectedMissionId, dash, exp, det, dl, reader>>

NextRender == RenderDocument

SpecRender == InitRender /\ [][NextRender]_vars

\* generateDocxBlob has been applied.
RenderedDocument == call.fn = "generateDocxBlob"

\* The text of the document returned, after the signature of the archive.
DocumentText == Text(SubSeq(call.out.bytes, 3, Len(call.out.bytes)))

\* C21 (as claimed): a directive whose key is not in the mapping does not
\* make the render throw and is not rendered as the empty string.
C21_AbsentKeyKeepsDirective ==
    RenderedDocument =>
        \A c \in AbsentKeyCases :
            call.in.text = c.before \o c.directive \o c.after
            => /\ call.out.kind = "blob"
               /\ DocumentText # c.before \o c.after

\* A field that is not set, or set to the empty string.
Absent(x) == x = Undefined \/ x = <<>>

\* What the mapping is to hold under key k for the mission and the
\* profile of the call.
ExpectedField(k) ==
    LET m == call.in.mission
        p == call.in.userProfile
        v == IF k \in DOMAIN p THEN p[k] ELSE m[k]
    IN IF k = "finishDate" /\ Absent(m.finishDate)
       THEN (IF Absent(m.date) THEN <<>> ELSE m.date)
       ELSE IF Absent(v) THEN <<>> ELSE v

\* The text holds none of the delimiters of the two passes.
NoDelimiter(v) == \A i \in 1..Len(v) : v[i] \notin {"{", "}", "(", ")"}

\* C22: the mapping holds the eleven keys, each with a string: the field
\* of the mission or of the profile, the empty string for a field that is
\* absent, the date for an absent finishDate; a directive of either pass
\* is replaced by the same value; id is not a key of the mapping (its
\* directive gives nothing of the mission).
C22_FieldMapping ==
    RenderedDocument =>
        /\ FieldKeys = {"title", "location", "date", "finishDate", "startTime",
                        "finishTime", "notes", "fullName", "profession", "cni",
                        "ppn"}
        /\ \A k \in FieldKeys :
              (/\ call.in.text = Directive("{", KeyChars[k], "}") \o <<"|">>
                                    \o Directive("(", KeyChars[k], ")")
               /\ NoDelimiter(ExpectedField(k)))
              => /\ call.out.kind = "blob"
                 /\ DocumentText = ExpectedField(k) \o <<"|">> \o ExpectedField(k)
        /\ call.in.text = Directive("{", <<"i", "d">>, "}") \o Directive("(", <<"i", "d">>, ")")
           => /\ call.out.kind = "blob"
              /\ DocumentText \in {<<>>, <<"i", "d", "i", "d">>}

C22_Witness ==
    /\ RenderedDocument
    /\ call.in.text = Directive("{", KeyChars.finishDate, "}") \o <<"|">>
                         \o Directive("(", KeyChars.finishDate, ")")
    /\ call.in.mission.finishDate = Undefined
    /\ call.out.kind = "blob"
    /\ DocumentText = DateStr(2) \o <<"|">> \o DateStr(2)

\* The two passes computed one after the other from the template of the
\* call: pass 1 on the archive of the template, pass 2 on the archive
\* opened from what pass 1 produced.
Pass1 ==
    DocxRender(ZipSignature \o Bytes(call.in.text),
               FieldData(call.in.mission, call.in.userProfile), "{", "}")

Pass2 ==
    IF Pass1.ok /\ PizZipLoad(Pass1.val).ok
    THEN DocxRender(PizZipLoad(Pass1.val).val,
                    FieldData(call.in.mission, call.in.userProfile), "(", ")")
    ELSE Throw

\* C23: the document returned is what pass 2 makes of the output of
\* pass 1; when pass 1 fails pass 2 is not run; when either pass fails no
\* document is returned.
C23_PassesInSequence ==
    RenderedDocument =>
        /\ call.out.kind \in {"blob", "null"}
        /\ call.out.kind = "blob" <=> (Pass1.ok /\ Pass2.ok)
        /\ call.out.kind = "blob" => (call.out.bytes = Pass2.val /\ call.out.passes = 2)
        /\ ~Pass1.ok => (call.out.passes = 0 /\ call.out.alert = "render")
        /\ (Pass1.ok /\ ~Pass2.ok) => (call.out.passes = 1 /\ call.out.alert = "render")

\* A title that reads as a directive of pass 2 is put in by pass 1 and
\* replaced by pass 2.
C23_Witness ==
    /\ RenderedDocument
    /\ call.in.text = Directive("{", KeyChars.title, "}") \o <<"|">>
                         \o Directive("(", KeyChars.title, ")")
    /\ call.in.mission.title = <<"(", "c", "n", "i", ")">>
    /\ call.in.userProfile = Profile
    /\ Pass1.val = ZipSignature \o Bytes(<<"(", "c", "n", "i", ")", "|", "(", "t", "i", "t", "l", "e", ")">>)
    /\ call.out.kind = "blob"
    /\ DocumentText = <<"X", "1", "|", "(", "c", "n", "i", ")">>

(***************************************************************************)
(* Batch export: two documents under one name                              *)
(***************************************************************************)

\* The title as the entry name holds it.
SanitizedTitle(title) ==
    First30([i \in 1..Len(title) |-> IF IsAlnum(title[i]) THEN title[i] ELSE "_"])

\* The missions at positions i and j of the export have the same date and
\* the same sanitized title.
SameDayAndTitle(i, j) ==
    /\ exp.range[i].date = exp.range[j].date
    /\ SanitizedTitle(exp.range[i].title) = SanitizedTitle(exp.range[j].title)

\* The document of the mission at position k, rendered again from the
\* template its render used.
DocumentOf(k) ==
    LET r == exp.results[k]
        tpl == IF r.healed THEN base64ToArrayBuffer(DEFAULT_TEMPLATE_BASE64).val
               ELSE r.template
        data == FieldData(exp.range[k], exp.userProfile)
        p1 == DocxRender(tpl, data, "{", "}")
    IN DocxRender(p1.val, data, "(", ")").val

\* C24: two rendered missions of an export with the same date and the same
\* sanitized title have one entry name; the archive holds one entry under
\* it, fewer entries than documents, and the entry is the document of the
\* last mission rendered under that name.
C24_LaterOverwritesEarlier ==
    \A i \in Rendered : \A j \in Rendered :
        (i < j /\ SameDayAndTitle(i, j))
        => /\ exp.results[i].name = exp.results[j].name
           /\ exp.results[j].name \in DOMAIN exp.masterZip
           /\ Cardinality(DOMAIN exp.masterZip) < Cardinality(Rendered)
           /\ (\A k \in Rendered : k > j => exp.results[k].name # exp.results[j].name)
              => exp.masterZip[exp.results[j].name] = DocumentOf(j)
           /\ exp.outcome = "archive" => exp.archive.files = exp.masterZip

C24_Witness ==
    /\ ExportEnded
    /\ exp.outcome = "archive"
    /\ Rendered = {1, 2, 3}
    /\ SameDayAndTitle(2, 3)
    /\ exp.range[2].title # exp.range[3].title
    /\ Cardinality(DOMAIN exp.archive.files) = 2
    /\ exp.archive.files[exp.results[3].name] = DocumentOf(3)
    /\ DocumentOf(3) # DocumentOf(2)

(***************************************************************************)
(* The App with its four views, and exports that outlive their Dashboard   *)
(***************************************************************************)

\* The missions the user has or adds.
AppMissions == {NewMission("m1", <<"A", " ", "b">>, 2), NewMission("m2", <<"Z", "9">>, 3)}

\* The profiles the user types.
AppProfiles == {Profile, [Profile EXCEPT !.cni = <<"Y", "2">>]}

\* The outcomes of the fetch of the default document: a network error, a
\* document.
AppResponses == {r \in FetchOutcomes : r.label \in {"error", "document"}}

\* A deletion that keeps the mission and removes the others.
deleteMission_others(missionList, id) == SelectSeq(missionList, LAMBDA m : m.id = id)

\* missions.filter(m => m.id !== id)
deleteMission(missionList, id) == SelectSeq(missionList, LAMBDA m : m.id # id)

InitApp ==
    /\ libs = [PizZip |-> TRUE, docxtemplater |-> TRUE]
    /\ engine \in Engines
    /\ tzOffset = 0
    /\ missions = <<NewMission("m1", <<"A", " ", "b">>, 2)>>
    /\ settings = NewSettings("default", <<NewTemplate("good", GoodData)>>)
    /\ userProfile = Profile
    /\ view = "dashboard"
    /\ selectedMissionId = "null"
    /\ dash = DashInit
    /\ exp = ExpInit
    /\ det = DetInit
    /\ dl = DlInit
    /\ storage = Stored(missions, settings)
    /\ boot = Started
    /\ detached = <<>>
    /\ reader = NoReads
    /\ call = NoCall

\* onSelect, onAdd or onOpenSettings of the Dashboard: the Dashboard is
\* unmounted and its state is gone; performExport, if it is waiting, goes
\* on without it.  One such export is followed at a time.  The user acts
\* once the stored values are on the screen.
LeaveDashboard ==
    /\ view = "dashboard"
    /\ boot.pc = "ready"
    /\ exp.pc # "idle" => detached = <<>>
    /\ \/ /\ view' \in {"add", "settings"}
          /\ UNCHANGED selectedMissionId
       \/ /\ view' = "details"
          /\ \E i \in 1..Len(missions) : selectedMissionId' = missions[i].id
    /\ detached' = IF exp.pc # "idle" THEN <<exp>> ELSE detached
    /\ exp' = ExpInit
    /\ dash' = DashInit
    /\ UNCHANGED <<storage, boot, engine, libs, tzOffset, missions, settings, userProfile, det, dl,
                   reader, call>>

\* onCancel of the editor, onBack of the details and of the settings: a
\* new Dashboard is mounted.
ReturnToDashboard ==
    /\ view \in {"add", "details", "settings"}
    /\ view' = "dashboard"
    /\ dash' = DashInit
    /\ UNCHANGED <<storage, boot, detached, engine, libs, tzOffset, missions, settings, userProfile,
                   selectedMissionId, exp, det, dl, reader, call>>

\* addMission (lines 1419-1422)
AddMission ==
    /\ view = "add"
    /\ \E m \in AppMissions :
          /\ findMission(missions, m.id) = <<>>
          /\ missions' = <<m>> \o missions
    /\ view' = "dashboard"
    /\ dash' = DashInit
    /\ UNCHANGED <<boot, detached, engine, libs, tzOffset, settings, userProfile,
                   selectedMissionId, exp, det, dl, reader, call>>
    /\ storage' = Stored(missions', settings')

\* onDelete of the details view: deleteMission(mission.id) (lines
\* 1428-1434, 1463-1471).
DeleteMission ==
    /\ view = "details"
    /\ findMission(missions, selectedMissionId) # <<>>
    /\ LET id == findMission(missions, selectedMissionId)[1].id
       IN /\ missions' = deleteMission(missions, id)
          /\ IF selectedMissionId = id
             THEN selectedMissionId' = "null" /\ view' = "dashboard" /\ dash' = DashInit
             ELSE UNCHANGED <<selectedMissionId, view, dash>>
    /\ UNCHANGED <<boot, detached, engine, libs, tzOffset, settings, userProfile, exp, det,
                   dl, reader, call>>
    /\ storage' = Stored(missions', settings')

\* The user makes another template the active one in the settings view.
ChangeActiveTemplate ==
    /\ view = "settings"
    /\ \E id \in {"default", "good"} :
          /\ id # settings.activeTemplateId
          /\ settings' = selectTemplate(settings, id)
    /\ UNCHANGED <<boot, detached, engine, libs, tzOffset, missions, userProfile, view,
                   selectedMissionId, dash, exp, det, dl, reader, call>>
    /\ storage' = Stored(missions', settings')

\* The user edits the profile in the settings view (lines 558-571).
EditProfile ==
    /\ view = "settings"
    /\ \E p \in AppProfiles : p # userProfile /\ userProfile' = p
    /\ UNCHANGED <<storage, boot, detached, engine, libs, tzOffset, missions, settings, view,
                   selectedMissionId, dash, exp, det, dl, reader, call>>

\* The fetch of the export of the mounted Dashboard completes.
MountedFetchDone ==
    /\ exp.pc = "fetch"
    /\ \E response \in AppResponses :
          exp' = Deliver(exp, GenerateFrom(AfterFetch(response), exp.range[exp.i],
                                           exp.userProfile), libs)
    /\ dash' = DashAfter(exp')
    /\ UNCHANGED <<storage, boot, detached, engine, libs, tzOffset, missions, settings, userProfile,
                   view, selectedMissionId, det, dl, reader, call>>

\* What is left to follow of a detached export: nothing once it has ended.
StillDetached(e) == IF e.pc = "idle" THEN <<>> ELSE <<e>>

\* The fetch of a detached export completes; setIsExporting of its finally
\* block acts on a Dashboard that is gone.
DetachedFetchDone ==
    /\ detached # <<>>
    /\ detached[1].pc = "fetch"
    /\ \E response \in AppResponses :
          detached' = StillDetached(
              Deliver(detached[1],
                      GenerateFrom(AfterFetch(response), detached[1].range[detached[1].i],
                                   detached[1].userProfile), libs))
    /\ UNCHANGED <<storage, boot, engine, libs, tzOffset, missions, settings, userProfile, view,
                   selectedMissionId, dash, exp, det, dl, reader, call>>

\* docBlob.arrayBuffer() of a detached export completes.
DetachedBlobRead ==
    /\ detached # <<>>
    /\ detached[1].pc = "blob"
    /\ detached' = StillDetached(Advance(AddToArchive(detached[1]), libs))
    /\ UNCHANGED <<storage, boot, engine, libs, tzOffset, missions, settings, userProfile, view,
                   selectedMissionId, dash, exp, det, dl, reader, call>>

NextApp ==
    \/ OpenExportModal
    \/ CloseExportModal
    \/ PerformExport
    \/ MountedFetchDone
    \/ ExportBlobRead
    \/ LeaveDashboard
    \/ ReturnToDashboard
    \/ AddMission
    \/ DeleteMission
    \/ ChangeActiveTemplate
    \/ EditProfile
    \/ DetachedFetchDone
    \/ DetachedBlobRead

SpecApp == InitApp /\ [][NextApp]_vars

\* The exports in flight: the one of the mounted Dashboard, those of the
\* Dashboards that are gone.
InFlight ==
    (IF exp.pc # "idle" THEN {exp} ELSE {}) \cup {detached[k] : k \in 1..Len(detached)}

\* C25 (as claimed): at most one export is in flight.
C25_OneExportInFlight ==
    ~(exp.pc # "idle" /\ detached # <<>>)

\* What an export took from the App when it was started.
Snapshot(e) == <<e.missions, e.settings, e.userProfile, e.dates, e.range>>

\* The document of the mission at position k of export e, rendered again
\* with the profile of the export from the template the render r used.
DocumentFrom(e, k, r) ==
    LET tpl == IF r.healed THEN base64ToArrayBuffer(DEFAULT_TEMPLATE_BASE64).val
               ELSE r.template
        data == FieldData(e.range[k], e.userProfile)
        p1 == DocxRender(tpl, data, "{", "}")
    IN DocxRender(p1.val, data, "(", ")").val

DocumentIn(e, k) == DocumentFrom(e, k, e.results[k])

\* The render r of export e resolved its template from the settings of
\* the export.
ResolvedFromSnapshot(e, r) ==
    /\ HasActiveCustom(e.settings)
       => /\ r.resTier = "custom"
          /\ r.template = base64ToArrayBuffer(ActiveData(e.settings)).val
    /\ ~HasActiveCustom(e.settings) => r.fetched

\* Everything export e has done so far was done with what it took at its
\* start: the missions rendered are those of its range, in order; each
\* template was resolved from its settings; each document, in the archive
\* or about to enter it, was rendered with its profile.
WorksOnSnapshot(e) ==
    /\ e.range = missionsInRange(e.missions, e.dates, tzOffset)
    /\ Len(e.results) <= Len(e.range)
    /\ \A k \in 1..Len(e.results) :
          LET r == e.results[k]
          IN /\ ResolvedFromSnapshot(e, r)
             /\ r.kind = "blob"
                => /\ r.name = fileName(e.range[k])
                   /\ (\A j \in (k + 1)..Len(e.results) : e.results[j].name # r.name)
                      => e.masterZip[r.name] = DocumentIn(e, k)
    /\ e.pc = "blob"
       => /\ ResolvedFromSnapshot(e, e.blob)
          /\ e.blob.bytes = DocumentFrom(e, e.i, e.blob)

\* C26: an export in flight works on the missions, the settings and the
\* profile it took when it was started, whatever the user changes in the
\* meantime: each step leaves the snapshot of every export in flight as it
\* was, a new export takes the state of the App at its start, and no step
\* of an export changes the missions, the settings or the profile of the
\* App.
C26_ExportWorksOnSnapshot ==
    /\ [](\A e \in InFlight \cup {exp} : WorksOnSnapshot(e))
    /\ [][/\ \A f \in InFlight' :
                \/ \E e \in InFlight : Snapshot(e) = Snapshot(f)
                \/ /\ f = exp'
                   /\ exp.pc = "idle"
                   /\ Snapshot(f) = <<missions, settings, userProfile, dash.exportDates,
                                      missionsInRange(missions, dash.exportDates,
                                                      tzOffset)>>
          /\ (exp' # exp \/ detached' # detached)
             => UNCHANGED <<missions, settings, userProfile>>]_vars

C26_Witness ==
    /\ detached # <<>>
    /\ detached[1].pc = "blob"
    /\ detached[1].i = 2
    /\ Len(detached[1].range) = 2
    /\ missions = <<>>
    /\ detached[1].settings.activeTemplateId = "default"
    /\ settings.activeTemplateId = "good"
    /\ detached[1].userProfile # userProfile
    /\ detached[1].blob.resTier # "custom"

\* The list without its element at position k.
Without(list, k) == SubSeq(list, 1, k - 1) \o SubSeq(list, k + 1, Len(list))

\* C29: when the details view is shown, the selected id is the id of a
\* mission of the list; a deletion in the details view removes the mission
\* shown and no other, clears the selection and shows the dashboard.
C29_DetailsShowsAMission ==
    /\ [](view = "details"
          => \E k \in 1..Len(missions) : missions[k].id = selectedMissionId)
    /\ [][(view = "details" /\ missions' # missions)
          => /\ \E k \in 1..Len(missions) :
                   /\ missions[k].id = selectedMissionId
                   /\ missions' = Without(missions, k)
             /\ selectedMissionId' = "null"
             /\ view' = "dashboard"]_vars

\* The first mission was deleted while a mission added later stays.
C29_Witness ==
    /\ view = "dashboard"
    /\ selectedMissionId = "null"
    /\ Len(missions) = 1
    /\ missions[1].id = "m2"

(***************************************************************************)
(* Start-up of the App: the load effect and the persist effects            *)
(***************************************************************************)

\* useState of lines 1354-1359: the state of the first render.
InitialMissions == <<>>

InitialSettings == NewSettings("default", <<>>)

\* The first render is done, its effects have not run.
Mounted == [pc |-> "mounted", missions |-> <<>>, settings |-> <<>>]

\* What local storage holds when the page is opened: missions and
\* settings saved by an earlier visit.
StoredMissionLists ==
    {<<NewMission("m1", <<"A", " ", "b">>, 2)>>,
     <<NewMission("m2", <<"Z", "9">>, 3), NewMission("m1", <<"A", " ", "b">>, 2)>>}

StoredSettings ==
    {NewSettings("good", <<NewTemplate("good", GoodData)>>),
     NewSettings("default", <<NewTemplate("good", GoodData)>>)}

InitStorage ==
    /\ libs = [PizZip |-> TRUE, docxtemplater |-> TRUE]
    /\ engine = [partRaw |-> "unset"]
    /\ tzOffset = 0
    /\ missions = InitialMissions
    /\ settings = InitialSettings
    /\ storage \in {Stored(ms, st) : ms \in StoredMissionLists, st \in StoredSettings}
    /\ boot = Mounted
    /\ userProfile = Profile
    /\ view = "dashboard"
    /\ selectedMissionId = "null"
    /\ dash = DashInit
    /\ exp = ExpInit
    /\ det = DetInit
    /\ dl = DlInit
    /\ detached = <<>>
    /\ reader = NoReads
    /\ call = NoCall

\* The effects of the first render run, in the order of their
\* declaration: the load effect (lines 1388-1398) reads the stored values
\* and calls setMissions and setSettings, which take effect at the next
\* render; the persist effects (lines 1405-1411) write the missions and
\* the settings of the first render.
FirstEffects ==
    /\ boot.pc = "mounted"
    /\ boot' = [pc |-> "loading",
                missions |-> safeJsonParse(storage.missions, InitialMissions),
                settings |-> safeJsonParse(storage.settings, InitialSettings)]
    /\ storage' = Stored(missions, settings)
    /\ UNCHANGED <<detached, engine, libs, tzOffset, missions, settings, userProfile,
                   view, selectedMissionId, dash, exp, det, dl, reader, call>>

\* The render with the loaded values, and the persist effects it sets off.
LoadedRender ==
    /\ boot.pc = "loading"
    /\ missions' = boot.missions
    /\ settings' = boot.settings
    /\ storage' = Stored(missions', settings')
    /\ boot' = Started
    /\ UNCHANGED <<detached, engine, libs, tzOffset, userProfile, view,
                   selectedMissionId, dash, exp, det, dl, reader, call>>

\* The page is closed, or reloaded, and opened again: the state of the App
\* is gone, local storage stays.
Reload ==
    /\ missions' = InitialMissions
    /\ settings' = InitialSettings
    /\ boot' = Mounted
    /\ view' = "dashboard"
    /\ selectedMissionId' = "null"
    /\ dash' = DashInit
    /\ exp' = ExpInit
    /\ detached' = <<>>
    /\ UNCHANGED <<storage, engine, libs, tzOffset, userProfile, det, dl, reader, call>>

NextStorage ==
    \/ FirstEffects
    \/ LoadedRender
    \/ Reload
    \/ LeaveDashboard
    \/ ReturnToDashboard
    \/ AddMission
    \/ ChangeActiveTemplate

SpecStorage == InitStorage /\ [][NextStorage]_vars

\* C27 (as claimed): local storage holds what was stored before the start
\* or what the user made of it.  Here a list that is not empty and
\* settings with a template are stored at the start, and the user only
\* adds missions and switches templates: so local storage never holds the
\* empty list or the default settings of the first render.
C27_StorageKeepsStoredValues ==
    /\ storage.missions # JSONItem(InitialMissions)
    /\ storage.settings # JSONItem(InitialSettings)

(***************************************************************************)
(* An upload that ends after another change of the settings                *)
(***************************************************************************)

\* reader.onload has run in this step.
UploadEnds == reader'.loaded = reader.loaded + 1

\* C28 (as claimed): when the read of an uploaded file ends, the settings
\* become the settings of that moment, with whatever was selected, deleted
\* or uploaded in the meantime, plus the new template as first entry and
\* as active template.
C28_UploadKeepsEarlierChanges ==
    [][UploadEnds =>
          \E data \in UploadData :
             settings' = addTemplate(settings,
                                     NewTemplate(UploadIds[reader'.loaded], data))]_vars

(***************************************************************************)
(* The document pipeline of src/index.tsx, next to that of part_000        *)
(***************************************************************************)

\* getTemplateBuffer of src/index.tsx (lines 94-118): the custom template
\* is decoded without a test of its data, the fetched payload is taken
\* when the response is ok and not empty.
getTemplateBuffer_index(st, response) ==
    LET custom == IF st.activeTemplateId # "default"
                  THEN find(st.customTemplates, st.activeTemplateId)
                  ELSE <<>>
    IN IF custom # <<>>
       THEN Resolution(base64ToArrayBuffer_index(custom[1].data), "custom", FALSE, "none")
       ELSE IF ~response.err /\ response.ok /\ Len(response.body) > 0
            THEN Resolution(Ok(response.body), "fetched", TRUE, response.label)
            ELSE Resolution(base64ToArrayBuffer_index(DEFAULT_TEMPLATE_BASE64),
                            "embedded", TRUE, response.label)

\* generateDocxBlob of src/index.tsx (lines 123-187): one try around the
\* whole body; an unopenable template is replaced by the embedded one.
generateDocxBlob_index(mission, st, profile, lb, response) ==
    IF ~LibsLoaded(lb) THEN LibsMissing
    ELSE LET res == getTemplateBuffer_index(st, response)
             zip == IF res.ok THEN PizZipLoad(res.val) ELSE Throw
             fallback == base64ToArrayBuffer_index(DEFAULT_TEMPLATE_BASE64)
             zipF == IF fallback.ok THEN PizZipLoad(fallback.val) ELSE Throw
             data == FieldData(mission, profile)
         IN IF ~res.ok
            THEN Generated("null", <<>>, res, "none", FALSE, 0, "failed")
            ELSE IF zip.ok THEN RenderPasses(zip.val, data, res, res.tier, FALSE)
            ELSE IF zipF.ok THEN RenderPasses(zipF.val, data, res, "embedded", TRUE)
            ELSE Generated("null", <<>>, res, "none", TRUE, 0, "failed")

\* window.PizZip and window.docxtemplater, each loaded or not.
LibsChoices == [PizZip : BOOLEAN, docxtemplater : BOOLEAN]

InitCopies ==
    /\ libs \in LibsChoices
    /\ engine \in Engines
    /\ tzOffset = 0
    /\ missions = <<>>
    /\ settings \in SettingsChoices
    /\ userProfile = Profile
    /\ view = "dashboard"
    /\ selectedMissionId = "null"
    /\ dash = DashInit
    /\ exp = ExpInit
    /\ det = DetInit
    /\ dl = DlInit
    /\ storage = Stored(missions, settings)
    /\ boot = Started
    /\ detached = <<>>
    /\ reader = NoReads
    /\ call = NoCall

\* Both copies of generateDocxBlob are called with the same mission,
\* settings and profile, and the fetch of each, if issued, has the same
\* outcome.
GenerateWithBothCopies ==
    /\ \E mission \in AppMissions, response \in FetchOutcomes :
          call' = [fn |-> "generateDocxBlob",
                   in |-> [mission |-> mission, settings |-> settings,
                           response |-> response],
                   out |-> [part_000 |-> generateDocxBlob(mission, settings, userProfile,
                                                          libs, response),
                            index |-> generateDocxBlob_index(mission, settings, userProfile,
                                                             libs, response)]]
    /\ UNCHANGED <<storage, boot, detached, engine, libs, tzOffset, missions, settings,
                   userProfile, view, selectedMissionId, dash, exp, det, dl, reader>>

NextCopies == GenerateWithBothCopies

SpecCopies == InitCopies /\ [][NextCopies]_vars

\* C30 (as claimed): for the same mission, settings, profile, libraries
\* and outcome of the fetch, the two copies both return a document
\* rendered from the same template tier, or both return no document.
C30_CopiesEquivalent ==
    call.fn = "generateDocxBlob" =>
        /\ call.out.part_000.kind = call.out.index.kind
        /\ call.out.part_000.tier = call.out.index.tier

\* The copies differ through a custom template only.
C30_DiffersOnCustomTemplate ==
    call.fn = "generateDocxBlob" /\ call.in.settings.activeTemplateId # "bad"
       => call.out.part_000.kind = call.out.index.kind

\* The copies differ through the fetched payload only.
C30_DiffersOnFetch ==
    call.fn = "generateDocxBlob" /\ call.in.response.label # "tiny"
                                 /\ call.in.settings.activeTemplateId # "bad"
       => call.out.part_000.tier = call.out.index.tier

====
